---- MODULE Spec2Model ----
(***************************************************************************)
(* A model of the Lynkr proxy: workspace path confinement, the tool policy *)
(* engine with the tool registry's dispatch and execution, the prompt      *)
(* cache with its keys and the identity of its values, and the MCP         *)
(* registry and client.                                                    *)
(*                                                                         *)
(* Text is modelled by what the code does with it.  A path is a sequence   *)
(* of one-character strings, so that String.prototype.startsWith and       *)
(* path.resolve are computed character by character and segment by         *)
(* segment.  A shell command is a sequence of words (the text is the words *)
(* joined by single blanks), so that Array.prototype.join(" ") is          *)
(* concatenation and a blocklist pattern is a run of consecutive words.    *)
(***************************************************************************)
EXTENDS Integers, Sequences, FiniteSets, TLC

VARIABLES
    wsCall,             \* the last workspace call: its operation and argument
    wsOutcome,          \* what that call did: threw, or the path it returned
    policy,             \* config.policy: disallowedTools and the git flags
    registry,           \* tools/index.js registry: the registered tool names
    lastCall,           \* the tool call last handed to evaluateToolCall
    toolCallsExecuted,  \* the counter handed to evaluateToolCall with it
    decision,           \* evaluateToolCall's decision on lastCall
    execResult,         \* executeToolCall's outcome on lastCall
    enabled,            \* PromptCache.enabled
    store,              \* PromptCache.store: the Map's entries in insertion order
    now,                \* Date.now()
    recency,            \* history: the keys by their last store or hit, latest last
    lastOp,             \* the last cache operation and what it returned
    heap,               \* the response objects alive: object i holds heap[i]
    objOf,              \* per cache key, the object that is its entry's value
    handles,            \* the objects callers hold a reference to
    keyCall,            \* two request bodies and the keys buildKey gave them
    servers,            \* mcp/registry.js servers: per id, the server entry
    clients,            \* mcp/registry.js clients: per id, its McpClient
    clientObjs,         \* the McpClient objects made so far, with their fields
    children,           \* the child processes spawned so far
    reqs,               \* history: every request made, and how it was settled
    held,               \* the McpClient objects some caller has a reference to
    remoteTools,        \* the mcp_<server>_<tool> names in the tool registry
    lastMcp,            \* the last MCP operation and what it did
    execCall,           \* a tool call, its handler's behaviour, and executeToolCall's outcome
    sessions,           \* the sessions table: per id, its row
    session_history,    \* the session_history table: its rows in insertion order
    historySeq,         \* the last id AUTOINCREMENT gave a session_history row
    clock,              \* Date.now() as the session code reads it
    req,                \* the HTTP request being served
    res,                \* the HTTP response to it
    loop,               \* processMessage's position in its step loop
    lastApi,            \* the last session or HTTP operation and what it returned
    inflight,           \* per concurrent request: its step and its copy of the session
    proc,               \* a subprocess run: its child, timer, buffers and result
    sbxCall,            \* a sandbox policy request and its decision
    gitCall             \* a workspace_git_commit call and the commands it ran

wsVars == <<wsCall, wsOutcome>>
policyVars == <<policy, registry, lastCall, toolCallsExecuted, decision, execResult>>
cacheVars == <<enabled, store, now, recency, lastOp>>
aliasVars == <<heap, objOf, handles>>
keyVars == <<keyCall>>
mcpVars == <<servers, clients, clientObjs, children, reqs, held, remoteTools, lastMcp>>
execVars == <<execCall>>
storeVars == <<sessions, session_history, historySeq, clock>>
httpVars == <<req, res, loop, lastApi>>
flightVars == <<inflight>>
apiVars == <<storeVars, httpVars, flightVars>>
procVars == <<proc>>
sandboxVars == <<sbxCall>>
gitVars == <<gitCall>>
toolVars == <<procVars, sandboxVars, gitVars>>
vars == <<wsVars, policyVars, cacheVars, aliasVars, keyVars, mcpVars, execVars, apiVars, toolVars>>

\* What a subsystem's step leaves alone: the other subsystems.
notWs == <<policyVars, cacheVars, aliasVars, keyVars, mcpVars, execVars, apiVars, toolVars>>
notPolicy == <<wsVars, cacheVars, aliasVars, keyVars, mcpVars, execVars, apiVars, toolVars>>
notCache == <<wsVars, policyVars, aliasVars, keyVars, mcpVars, execVars, apiVars, toolVars>>
notMcp == <<wsVars, policyVars, cacheVars, aliasVars, keyVars, execVars, apiVars, toolVars>>
notApi == <<wsVars, policyVars, cacheVars, aliasVars, keyVars, mcpVars, execVars, toolVars>>
notProc == <<wsVars, policyVars, cacheVars, aliasVars, keyVars, mcpVars, execVars, apiVars, sandboxVars, gitVars>>
notSandbox == <<wsVars, policyVars, cacheVars, aliasVars, keyVars, mcpVars, execVars, apiVars, procVars, gitVars>>
notGit == <<wsVars, policyVars, cacheVars, aliasVars, keyVars, mcpVars, execVars, apiVars, procVars, sandboxVars>>

(***************************************************************************)
(* Workspace: src/src/workspace/index.js, src/src/tools/process.js         *)
(***************************************************************************)

\* Longest path text tried.
MaxPathLen == 5

PathChars == {"/", ".", "w", "o"}

TargetPaths == UNION {[1..n -> PathChars] : n \in 0..MaxPathLen}

\* path.resolve(config.workspace.root): an absolute, normalised path.
workspaceRoot == <<"/", "w">>

RECURSIVE SplitAcc(_, _, _)
SplitAcc(s, cur, acc) ==
    IF s = <<>>
    THEN IF cur = <<>> THEN acc ELSE Append(acc, cur)
    ELSE IF Head(s) = "/"
         THEN SplitAcc(Tail(s), <<>>, IF cur = <<>> THEN acc ELSE Append(acc, cur))
         ELSE SplitAcc(Tail(s), Append(cur, Head(s)), acc)

\* The non-empty segments of a path text, in order.
Segments(s) == SplitAcc(s, <<>>, <<>>)

RECURSIVE NormalizeAcc(_, _)
NormalizeAcc(segs, acc) ==
    IF segs = <<>>
    THEN acc
    ELSE LET h == Head(segs)
         IN NormalizeAcc(Tail(segs),
                IF h = <<".">> THEN acc
                ELSE IF h = <<".", ".">>
                     THEN IF acc = <<>> THEN acc ELSE SubSeq(acc, 1, Len(acc) - 1)
                     ELSE Append(acc, h))

RECURSIVE JoinSegments(_)
JoinSegments(segs) ==
    IF segs = <<>> THEN <<>> ELSE <<"/">> \o Head(segs) \o JoinSegments(Tail(segs))

PathText(segs) == IF segs = <<>> THEN <<"/">> ELSE JoinSegments(segs)

\* Node's posix path.resolve(base, target) for an absolute base: an absolute
\* target replaces the base; "." and ".." are resolved, ".." at the root
\* stays at the root; no trailing or doubled separator is left.
PathResolve(base, target) ==
    IF target # <<>> /\ Head(target) = "/"
    THEN PathText(NormalizeAcc(Segments(target), <<>>))
    ELSE PathText(NormalizeAcc(Segments(base) \o Segments(target), <<>>))

\* String.prototype.startsWith
StartsWith(s, prefix) ==
    /\ Len(prefix) <= Len(s)
    /\ SubSeq(s, 1, Len(prefix)) = prefix

Threw == [threw |-> TRUE, path |-> <<>>]
Returned(p) == [threw |-> FALSE, path |-> p]

resolveWorkspacePath(targetPath) ==
    IF targetPath = <<>>
    THEN Threw
    ELSE LET resolved == PathResolve(workspaceRoot, targetPath)
         IN IF ~StartsWith(resolved, workspaceRoot)
            THEN Threw
            ELSE Returned(resolved)

\* runProcess, lines 48-51: the working directory of the child.
resolvedCwd(cwd) ==
    IF cwd = <<>> THEN Returned(workspaceRoot) ELSE resolveWorkspacePath(cwd)

WsInit ==
    /\ wsCall = [op |-> "none", arg |-> <<>>]
    /\ wsOutcome = Threw

WsOff == WsInit

\* fs_read, fs_write, edit_patch: the path goes through resolveWorkspacePath.
\* The function keeps no state between calls: a behaviour makes one call.
ResolveWorkspacePath(t) ==
    /\ wsCall.op = "none"
    /\ wsCall' = [op |-> "resolveWorkspacePath", arg |-> t]
    /\ wsOutcome' = resolveWorkspacePath(t)
    /\ UNCHANGED notWs

RunProcess(cwd) ==
    /\ wsCall.op = "none"
    /\ wsCall' = [op |-> "runProcess", arg |-> cwd]
    /\ wsOutcome' = resolvedCwd(cwd)
    /\ UNCHANGED notWs

WsNext ==
    \/ \E t \in TargetPaths : ResolveWorkspacePath(t)
    \/ \E t \in TargetPaths : RunProcess(t)

\* p is the directory root or lies beneath it: root's segments begin p's.
IsWithin(p, root) ==
    LET ps == Segments(p)
        rs == Segments(root)
    IN /\ Len(rs) <= Len(ps)
       /\ SubSeq(ps, 1, Len(rs)) = rs

(***************************************************************************)
(* Policy engine and tool dispatch: src/unnamed/part_008,                  *)
(* src/src/tools/index.js, src/unnamed/part_011                            *)
(***************************************************************************)

\* config.policy.maxToolCallsPerTurn as configured for the model.
maxToolCallsPerTurn == 2

Str(w) == [kind |-> "string", v |-> w]
Arr(w) == [kind |-> "array", v |-> w]
NoValue == [kind |-> "absent", v |-> <<>>]

ArgFields == {"command", "cmd", "run", "input", "args", "code", "script"}
ShellFields == {"command", "cmd", "run", "input", "args"}
PythonFields == {"code", "script", "input"}

EmptyArgs == [f \in ArgFields |-> NoValue]

ArgsWith(f1, v1, f2, v2) ==
    [f \in ArgFields |-> IF f = f1 THEN v1 ELSE IF f = f2 THEN v2 ELSE NoValue]

ShellVals ==
    {NoValue, Str(<<"ls">>), Str(<<"rm", "-rf", "/">>),
     Arr(<<"rm">>), Arr(<<"-rf", "/">>), Arr(<<"rm", "-rf", "/">>)}

PythonVals == {NoValue, Str(<<"print(1)">>), Str(<<"os.remove('/')">>)}

\* Argument mappings with at most two keys present.
ShellArgs ==
    {ArgsWith(f1, v1, f2, v2) : f1 \in ShellFields, f2 \in ShellFields,
                                v1 \in ShellVals, v2 \in ShellVals}

PythonArgs ==
    {ArgsWith(f1, v1, f2, v2) : f1 \in PythonFields, f2 \in PythonFields,
                                v1 \in PythonVals, v2 \in PythonVals}

\* The registered tools the model follows (registered at startup).
RegisteredTools ==
    {"shell", "python_exec", "fs_read", "workspace_git_push",
     "workspace_git_pull", "workspace_git_commit"}

ShellNames == {"shell", "bash"}

OtherNames ==
    {"fs_read", "read", "workspace_git_push", "push", "Workspace_Git_Push",
     "workspace_git_pull", "pull", "workspace_git_commit", "commit",
     "no_such_tool"}

\* call.function.arguments: a JSON text ("json"), a structured object
\* ("object") or a text that is no JSON ("invalid"); value is the mapping
\* the text encodes or the object holds.
Call(n, form, a) == [name |-> n, form |-> form, value |-> a]

Calls ==
    {Call(n, "json", a) : n \in ShellNames, a \in ShellArgs}
    \cup {Call("python_exec", "json", a) : a \in PythonArgs}
    \cup {Call(n, "json", EmptyArgs) : n \in OtherNames}
    \cup {Call("shell", f, ArgsWith("command", Str(<<"rm", "-rf", "/">>), "cmd", NoValue)) :
              f \in {"object", "invalid"}}

DisallowCandidates == {"shell", "workspace_git_push"}

Policies ==
    [disallowedTools : SUBSET DisallowCandidates,
     allowPush : BOOLEAN, allowPull : BOOLEAN, allowCommit : BOOLEAN]

\* String.prototype.toLowerCase on the names of the model.
toLowerCase(n) ==
    CASE n = "Workspace_Git_Push" -> "workspace_git_push"
      [] n = "Bash" -> "bash"
      [] OTHER -> n

TOOL_ALIASES ==
    [a \in {"bash", "shell", "read", "commit", "push", "pull"} |->
        CASE a = "bash" -> "shell"
          [] a = "shell" -> "shell"
          [] a = "read" -> "fs_read"
          [] a = "commit" -> "workspace_git_commit"
          [] a = "push" -> "workspace_git_push"
          [] a = "pull" -> "workspace_git_pull"]

\* text contains the words of pattern, consecutively.
Contains(text, pattern) ==
    \E i \in 1..(Len(text) - Len(pattern) + 1) :
        SubSeq(text, i, i + Len(pattern) - 1) = pattern

SHELL_BLOCKLIST_PATTERNS ==
    {<<"rm", "-rf", "/">>, <<"shutdown">>, <<"reboot">>, <<"systemctl", "stop">>,
     <<"mkfs">>, <<"dd", "if=/dev/">>, <<":&};:">>, <<"chown", "-R", "root">>}

PYTHON_BLOCKLIST_PATTERNS ==
    {<<"os.remove('/')">>, <<"subprocess.run('rm", "-rf">>, <<"shutil.rmtree('/')">>}

matchesAny(patterns, value) == \E pat \in patterns : Contains(value, pat)

\* part_008 parseArguments: JSON.parse of a text, {} for anything else.
policyParseArguments(call) ==
    IF call.form = "json" THEN call.value ELSE EmptyArgs

\* Mutant: the list read as an allow list.
isToolAllowedInverted(cfg, toolName) == toolName \in cfg.disallowedTools

isToolAllowed(cfg, toolName) == toolName \notin cfg.disallowedTools

ShellDecision(ok) == [allowed |-> ok]

evaluateShellCall(args) ==
    LET command ==
            IF args.command.kind = "string" THEN args.command.v
            ELSE IF args.cmd.kind = "string" THEN args.cmd.v
            ELSE IF args.run.kind = "string" THEN args.run.v
            ELSE IF args.command.kind = "array" THEN args.command.v
            ELSE IF args.args.kind = "array" THEN args.args.v
            ELSE <<>>
    IN IF command = <<>> THEN ShellDecision(TRUE)
       ELSE IF matchesAny(SHELL_BLOCKLIST_PATTERNS, command) THEN ShellDecision(FALSE)
       ELSE ShellDecision(TRUE)

evaluatePythonCall(args) ==
    LET code ==
            IF args.code.kind = "string" THEN args.code.v
            ELSE IF args.script.kind = "string" THEN args.script.v
            ELSE IF args.input.kind = "string" THEN args.input.v
            ELSE <<>>
    IN IF code = <<>> THEN ShellDecision(TRUE)
       ELSE IF matchesAny(PYTHON_BLOCKLIST_PATTERNS, code) THEN ShellDecision(FALSE)
       ELSE ShellDecision(TRUE)

Deny(status, code) == [allowed |-> FALSE, status |-> status, code |-> code]
Allow == [allowed |-> TRUE, status |-> 0, code |-> "none"]

\* Mutant: the per-turn quota tested before the disallow list.
evaluateToolCallQuotaFirst(cfg, call, executed) ==
    IF executed >= maxToolCallsPerTurn THEN Deny(429, "tool_limit_reached")
    ELSE IF ~isToolAllowed(cfg, call.name) THEN Deny(403, "tool_disallowed")
    ELSE Allow

\* evaluateToolCall under the policy configuration cfg (config.policy).
evaluateToolCallUnder(cfg, call, executed) ==
    LET toolName == call.name
        args == policyParseArguments(call)
    IN IF ~isToolAllowed(cfg, toolName) THEN Deny(403, "tool_disallowed")
       ELSE IF executed >= maxToolCallsPerTurn THEN Deny(429, "tool_limit_reached")
       ELSE IF toolName = "workspace_git_push" /\ cfg.allowPush # TRUE
            THEN Deny(403, "git_push_disabled")
       ELSE IF toolName = "workspace_git_pull" /\ cfg.allowPull # TRUE
            THEN Deny(403, "git_pull_disabled")
       ELSE IF toolName = "workspace_git_commit" /\ cfg.allowCommit # TRUE
            THEN Deny(403, "git_commit_disabled")
       ELSE IF toolName = "shell" /\ ~evaluateShellCall(args).allowed
            THEN Deny(403, "unsafe_shell_command")
       ELSE IF toolName = "python_exec" /\ ~evaluatePythonCall(args).allowed
            THEN Deny(403, "unsafe_python_code")
       ELSE Allow

evaluateToolCall(call, executed) == evaluateToolCallUnder(policy, call, executed)

\* tools/index.js parseArguments.
parseArguments(call) ==
    IF call.form = "json" THEN call.value ELSE EmptyArgs

\* registryLowercase.get(l): the registered name whose lower-cased form is l.
LowercaseEntry(l) == {n \in registry : toLowerCase(n) = l}

\* The name executeToolCall dispatches to, "" when no tool is found:
\* exact name, then the alias table, then the lower-cased name.
DispatchName(name) ==
    LET lower == toLowerCase(name)
        aliasTarget == IF lower \in DOMAIN TOOL_ALIASES THEN TOOL_ALIASES[lower] ELSE ""
    IN IF name \in registry THEN name
       ELSE IF aliasTarget \in registry THEN aliasTarget
       ELSE IF LowercaseEntry(lower) # {} THEN CHOOSE n \in LowercaseEntry(lower) : TRUE
       ELSE ""

\* The name of the tool getTool returns, "" when it returns undefined:
\* exact name, then the lower-cased name, then the alias table.
getTool(name) ==
    LET lower == toLowerCase(name)
        aliasTarget == IF lower \in DOMAIN TOOL_ALIASES THEN TOOL_ALIASES[lower] ELSE ""
    IN IF name = "" THEN ""
       ELSE IF name \in registry THEN name
       ELSE IF LowercaseEntry(lower) # {} THEN CHOOSE n \in LowercaseEntry(lower) : TRUE
       ELSE IF aliasTarget \in registry THEN aliasTarget
       ELSE ""

NoSpawn == [spawned |-> FALSE, words |-> <<>>]
Spawn(w) == [spawned |-> TRUE, words |-> w]

IsFalsy(v) == v.kind = "absent" \/ (v.kind = "string" /\ v.v = <<>>)

\* The shell tool's handler: the command line it hands to runProcess, or
\* NoSpawn when it throws.  bash -lc <text> runs the text; an array is run
\* as command[0] with the remaining elements and args.args as arguments.
shellHandler(args) ==
    LET command ==
            IF args.command.kind # "absent" THEN args.command
            ELSE IF args.cmd.kind # "absent" THEN args.cmd
            ELSE IF args.run.kind # "absent" THEN args.run
            ELSE args.input
        commandArgs == IF args.args.kind = "array" THEN args.args.v ELSE <<>>
    IN IF command.kind = "string" /\ command.v # <<>> THEN Spawn(command.v)
       ELSE IF command.kind = "array" /\ command.v # <<>>
            THEN Spawn(command.v \o commandArgs)
       ELSE IF args.args.kind = "string" /\ args.args.v # <<>> /\ IsFalsy(command)
            THEN Spawn(args.args.v)
       ELSE NoSpawn

NoResult == [name |-> "", status |-> 0, ran |-> FALSE, run |-> NoSpawn]

\* executeToolCall: the tool dispatched to, whether its handler was invoked,
\* what the shell handler ran, and the status of the tool result; exitOk is
\* the outcome of the child process when one is spawned.
executeToolCall(call, exitOk) ==
    LET target == DispatchName(call.name)
        args == parseArguments(call)
        run == IF target = "shell" THEN shellHandler(args) ELSE NoSpawn
    IN IF target = ""
       THEN [name |-> call.name, status |-> 404, ran |-> FALSE, run |-> NoSpawn]
       ELSE IF target = "shell" /\ ~run.spawned
            THEN [name |-> target, status |-> 500, ran |-> TRUE, run |-> NoSpawn]
       ELSE [name |-> target, status |-> IF exitOk THEN 200 ELSE 500,
             ran |-> TRUE, run |-> run]

NoCall == Call("", "json", EmptyArgs)
NoDecision == [allowed |-> FALSE, status |-> 0, code |-> "none"]

PolicyOff ==
    /\ policy = [disallowedTools |-> {}, allowPush |-> FALSE,
                 allowPull |-> FALSE, allowCommit |-> FALSE]
    /\ registry = RegisteredTools
    /\ lastCall = NoCall
    /\ toolCallsExecuted = 0
    /\ decision = NoDecision
    /\ execResult = NoResult

PolicyInit ==
    /\ policy \in Policies
    /\ registry = RegisteredTools
    /\ lastCall = NoCall
    /\ toolCallsExecuted = 0
    /\ decision = NoDecision
    /\ execResult = NoResult

\* The policy engine is consulted with a call and the number of tool calls
\* executed so far in the turn.  It keeps no state between calls: a
\* behaviour follows one call.
EvaluateToolCall(call, n) ==
    /\ lastCall = NoCall
    /\ lastCall' = call
    /\ toolCallsExecuted' = n
    /\ decision' = evaluateToolCall(call, n)
    /\ execResult' = NoResult
    /\ UNCHANGED <<policy, registry>>
    /\ UNCHANGED notPolicy

\* The registry executes the call the policy engine was consulted on.
ExecuteToolCall(exitOk) ==
    /\ lastCall # NoCall
    /\ execResult = NoResult
    /\ execResult' = executeToolCall(lastCall, exitOk)
    /\ UNCHANGED <<policy, registry, lastCall, toolCallsExecuted, decision>>
    /\ UNCHANGED notPolicy

PolicyNext ==
    \/ /\ lastCall = NoCall
       /\ \E call \in Calls, n \in 0..maxToolCallsPerTurn : EvaluateToolCall(call, n)
    \/ \E exitOk \in BOOLEAN : ExecuteToolCall(exitOk)


\* Names a tool can be registered under; no two of them share a lower-cased
\* form, so the lower-case shadow map holds one entry per registered name.
ToolNames == RegisteredTools \cup {"Bash"}

\* Names a call can carry when the resolution of names is followed.
ResolveNames ==
    {"shell", "bash", "Bash", "fs_read", "read", "Workspace_Git_Push", "push",
     "no_such_tool"}

\* registerTool(name, handler): the registry and its lower-case shadow gain
\* the name.  Tools are registered before calls are served.
RegisterTool(name) ==
    /\ lastCall = NoCall
    /\ registry' = registry \cup {name}
    /\ UNCHANGED <<policy, lastCall, toolCallsExecuted, decision, execResult>>
    /\ UNCHANGED notPolicy

ResolveInit ==
    /\ policy = [disallowedTools |-> {}, allowPush |-> TRUE,
                 allowPull |-> TRUE, allowCommit |-> TRUE]
    /\ registry = {}
    /\ lastCall = NoCall
    /\ toolCallsExecuted = 0
    /\ decision = NoDecision
    /\ execResult = NoResult

ResolveNext ==
    \/ \E name \in ToolNames : RegisterTool(name)
    \/ /\ lastCall = NoCall
       /\ \E name \in ResolveNames : EvaluateToolCall(Call(name, "json", EmptyArgs), 0)
    \/ \E exitOk \in BOOLEAN : ExecuteToolCall(exitOk)


(***************************************************************************)
(* Prompt cache: src/src/cache/prompt.js                                   *)
(***************************************************************************)

\* The clock stops here.
MaxClock == 3

\* this.maxEntries and this.ttlMs as configured for the model (both are
\* positive: the constructor replaces anything else by its default).
maxEntries == 2
ttlMs == 2

\* Cache keys (SHA-256 digests); NoKey is what buildKey gives for a payload
\* it cannot key (null), and what an empty string counts as.
Keys == 1..(maxEntries + 1)
NoKey == 0

\* A provider response: ok, whether json is present, status (NotANumber
\* when it is no number), whether json.choices[0] exists, its finish_reason
\* and its message.tool_calls ("absent", "empty" array, array of "calls").
NotANumber == -1

Response(ok, json, status, choice, finish, tc) ==
    [null |-> FALSE, ok |-> ok, json |-> json, status |-> status,
     choice |-> choice, finish_reason |-> finish, tool_calls |-> tc]

NullResponse ==
    [null |-> TRUE, ok |-> FALSE, json |-> FALSE, status |-> NotANumber,
     choice |-> FALSE, finish_reason |-> "stop", tool_calls |-> "absent"]

TerminalResponse == Response(TRUE, TRUE, 200, TRUE, "stop", "absent")

AllResponses ==
    {Response(ok, json, status, choice, finish, tc) :
        ok \in BOOLEAN, json \in BOOLEAN, status \in {200, 500, NotANumber},
        choice \in BOOLEAN, finish \in {"stop", "tool_calls"},
        tc \in {"absent", "empty", "calls"}}

\* The responses the cache is driven with: a terminal one, and a tool-use
\* one that only its tool_calls array tells from it (admission over all
\* responses is followed in SpecAdmission).
Responses ==
    {TerminalResponse,
     Response(TRUE, TRUE, 200, TRUE, "stop", "calls")}

\* structuredClone: a structurally equal copy.
cloneValue(value) == value

Entry(k, v, t) ==
    [key |-> k, value |-> v, createdAt |-> t, expiresAt |-> t + ttlMs]

\* Map.prototype.has / get / delete / set on the insertion-ordered store.
Has(s, k) == \E i \in 1..Len(s) : s[i].key = k
Get(s, k) == s[CHOOSE i \in 1..Len(s) : s[i].key = k]
Delete(s, k) == SelectSeq(s, LAMBDA e : e.key # k)
Set(s, e) ==
    IF Has(s, e.key)
    THEN [i \in 1..Len(s) |-> IF s[i].key = e.key THEN e ELSE s[i]]
    ELSE Append(s, e)

\* Mutant: an entry is kept through the instant it expires.
pruneExpiredLate(s, t) == SelectSeq(s, LAMBDA e : ~(e.expiresAt < t))

pruneExpired(s, t) == SelectSeq(s, LAMBDA e : ~(e.expiresAt <= t))

\* Mutant: tool use recognised by finish_reason alone.
shouldCacheResponseFinishOnly(response) ==
    /\ ~response.null
    /\ response.ok = TRUE
    /\ response.json
    /\ ~(response.status # NotANumber /\ response.status # 200)
    /\ response.choice
    /\ response.finish_reason # "tool_calls"

\* Mutant: the status not looked at.
shouldCacheResponseNoStatus(response) ==
    /\ ~response.null
    /\ response.ok = TRUE
    /\ response.json
    /\ response.choice
    /\ response.finish_reason # "tool_calls"
    /\ ~(response.tool_calls = "calls")

shouldCacheResponse(response) ==
    /\ ~response.null
    /\ response.ok = TRUE
    /\ response.json
    /\ ~(response.status # NotANumber /\ response.status # 200)
    /\ response.choice
    /\ response.finish_reason # "tool_calls"
    /\ ~(response.tool_calls = "calls")

\* Mutant: the newest entry is the one deleted.
RECURSIVE EvictNewest(_)
EvictNewest(s) ==
    IF Len(s) > maxEntries THEN EvictNewest(SubSeq(s, 1, Len(s) - 1)) ELSE s

\* while (store.size > maxEntries) delete the first key.
RECURSIVE EvictOldest(_)
EvictOldest(s) ==
    IF Len(s) > maxEntries THEN EvictOldest(Delete(s, Head(s).key)) ELSE s

\* lookup: the store it leaves and the entry it returns.
NoEntry == [found |-> FALSE, entry |-> Entry(NoKey, NullResponse, 0)]
Found(e) == [found |-> TRUE, entry |-> e]

\* Mutant: a hit leaves the entry where it is.
lookupInPlace(s, key, t) ==
    IF ~enabled \/ key = NoKey
    THEN [store |-> s, key |-> NoKey, result |-> NoEntry]
    ELSE LET pruned == pruneExpired(s, t)
         IN IF ~Has(pruned, key)
            THEN [store |-> pruned, key |-> key, result |-> NoEntry]
            ELSE [store |-> pruned, key |-> key, result |-> Found(Get(pruned, key))]

lookup(s, key, t) ==
    IF ~enabled \/ key = NoKey
    THEN [store |-> s, key |-> NoKey, result |-> NoEntry]
    ELSE LET pruned == pruneExpired(s, t)
         IN IF ~Has(pruned, key)
            THEN [store |-> pruned, key |-> key, result |-> NoEntry]
            ELSE LET entry == Get(pruned, key)
                 IN IF entry.expiresAt <= t
                    THEN [store |-> Delete(pruned, key), key |-> key, result |-> NoEntry]
                    ELSE [store |-> Set(Delete(pruned, key), entry), key |-> key,
                          result |-> Found(entry)]

\* storeResponse: the store it leaves and the key it returns (NoKey for null).
storeResponse(s, key, response, t) ==
    IF ~enabled \/ ~shouldCacheResponse(response) \/ key = NoKey
    THEN [store |-> s, key |-> NoKey]
    ELSE LET pruned == pruneExpired(s, t)
             entry == Entry(key, cloneValue(response), t)
             removed == IF Has(pruned, key) THEN Delete(pruned, key) ELSE pruned
         IN [store |-> EvictOldest(Set(removed, entry)), key |-> key]

\* The history of uses: key is now the most recently used.
Use(r, key) == Append(SelectSeq(r, LAMBDA k : k # key), key)

NoOp ==
    [op |-> "none", key |-> NoKey, at |-> 0, hit |-> FALSE, stored |-> FALSE,
     value |-> NullResponse, response |-> NullResponse]

CacheInitWith(on) ==
    /\ enabled = on
    /\ store = <<>>
    /\ now = 0
    /\ recency = <<>>
    /\ lastOp = NoOp

CacheInit == \E on \in BOOLEAN : CacheInitWith(on)

CacheOff == CacheInitWith(FALSE)

Lookup(key) ==
    LET r == lookup(store, key, now)
    IN /\ store' = r.store
       /\ recency' = IF r.result.found THEN Use(recency, key) ELSE recency
       /\ lastOp' = [op |-> "lookup", key |-> key, at |-> now,
                     hit |-> r.result.found, stored |-> FALSE,
                     value |-> r.result.entry.value, response |-> NullResponse]
       /\ UNCHANGED <<enabled, now>>
       /\ UNCHANGED notCache

Fetch(key) ==
    LET r == lookup(store, key, now)
    IN /\ store' = r.store
       /\ recency' = IF r.result.found THEN Use(recency, key) ELSE recency
       /\ lastOp' = [op |-> "fetch", key |-> key, at |-> now,
                     hit |-> r.result.found, stored |-> FALSE,
                     value |-> IF r.result.found
                               THEN cloneValue(r.result.entry.value)
                               ELSE NullResponse,
                     response |-> NullResponse]
       /\ UNCHANGED <<enabled, now>>
       /\ UNCHANGED notCache

StoreResponse(key, response) ==
    LET r == storeResponse(store, key, response, now)
    IN /\ store' = r.store
       /\ recency' = IF r.key # NoKey THEN Use(recency, key) ELSE recency
       /\ lastOp' = [op |-> "store", key |-> key, at |-> now, hit |-> FALSE,
                     stored |-> r.key # NoKey, value |-> NullResponse,
                     response |-> response]
       /\ UNCHANGED <<enabled, now>>
       /\ UNCHANGED notCache

\* Time passes between operations.
Tick ==
    /\ now < MaxClock
    /\ now' = now + 1
    /\ UNCHANGED <<enabled, store, recency, lastOp>>
    /\ UNCHANGED notCache

CacheNext ==
    \/ \E key \in Keys \cup {NoKey} : Lookup(key)
    \/ \E key \in Keys \cup {NoKey} : Fetch(key)
    \/ \E key \in Keys \cup {NoKey}, response \in Responses : StoreResponse(key, response)
    \/ Tick

(***************************************************************************)
(* Object identity in the prompt cache: src/src/cache/prompt.js            *)
(*                                                                         *)
(* A response is an object; heap[i] is what object i holds now.  A clone   *)
(* is a new object with equal contents.  The store's value field shows the *)
(* contents of the object objOf names, so a write through any reference to *)
(* that object shows in the store.                                         *)
(***************************************************************************)

\* Most objects alive at once.
MaxObjects == 4

NoObject == 0

\* A caller's write to a response it holds (any field would do).
Mutated(value) == [value EXCEPT !.finish_reason = "edited"]

\* The objects of the entries a store operation kept; fresh is the stored key's.
ObjectsAfter(s, key, fresh) ==
    [k \in Keys |-> IF ~Has(s, k) THEN NoObject
                    ELSE IF k = key /\ fresh # NoObject THEN fresh ELSE objOf[k]]

AliasInit ==
    /\ heap = <<>>
    /\ objOf = [k \in Keys |-> NoObject]
    /\ handles = {}

AliasOff == AliasInit

\* storeResponse(key, response): the caller keeps its response object, the
\* entry's value is cloneValue(response), a new object.
AliasStoreResponse(key, response) ==
    LET r == storeResponse(store, key, response, now)
        stored == r.key # NoKey
        own == Len(heap) + 1
        clone == Len(heap) + 2
    IN /\ Len(heap) + 2 <= MaxObjects
       /\ store' = r.store
       /\ heap' = IF stored
                  THEN heap \o <<response, cloneValue(response)>>
                  ELSE Append(heap, response)
       /\ objOf' = ObjectsAfter(r.store, key, IF stored THEN clone ELSE NoObject)
       /\ handles' = handles \cup {own}
       /\ UNCHANGED <<enabled, now, recency, lastOp>>
       /\ UNCHANGED <<wsVars, policyVars, keyVars, mcpVars, execVars, apiVars, toolVars>>

\* lookup(key): on a hit the caller receives the entry itself, and with it
\* the object that is the entry's value.
AliasLookup(key) ==
    LET r == lookup(store, key, now)
    IN /\ store' = r.store
       /\ objOf' = ObjectsAfter(r.store, key, NoObject)
       /\ handles' = IF r.result.found THEN handles \cup {objOf[key]} ELSE handles
       /\ UNCHANGED heap
       /\ UNCHANGED <<enabled, now, recency, lastOp>>
       /\ UNCHANGED <<wsVars, policyVars, keyVars, mcpVars, execVars, apiVars, toolVars>>

\* fetch(payload): on a hit the caller receives cloneValue(entry.value).
AliasFetch(key) ==
    LET r == lookup(store, key, now)
    IN /\ Len(heap) < MaxObjects
       /\ store' = r.store
       /\ objOf' = ObjectsAfter(r.store, key, NoObject)
       /\ heap' = IF r.result.found
                  THEN Append(heap, cloneValue(r.result.entry.value))
                  ELSE heap
       /\ handles' = IF r.result.found
                     THEN handles \cup {Len(heap) + 1}
                     ELSE handles
       /\ UNCHANGED <<enabled, now, recency, lastOp>>
       /\ UNCHANGED <<wsVars, policyVars, keyVars, mcpVars, execVars, apiVars, toolVars>>

\* A caller writes to an object it holds; every reference to the object,
\* an entry's value included, sees the write.
Mutate(h) ==
    /\ h \in handles
    /\ heap[h] # Mutated(heap[h])
    /\ heap' = [heap EXCEPT ![h] = Mutated(@)]
    /\ store' = [i \in 1..Len(store) |->
                    IF objOf[store[i].key] = h
                    THEN [store[i] EXCEPT !.value = Mutated(@)]
                    ELSE store[i]]
    /\ UNCHANGED <<objOf, handles>>
    /\ UNCHANGED <<enabled, now, recency, lastOp>>
    /\ UNCHANGED <<wsVars, policyVars, keyVars, mcpVars, execVars, apiVars, toolVars>>

AliasNext ==
    \/ \E key \in Keys : AliasStoreResponse(key, TerminalResponse)
    \/ \E key \in Keys : AliasLookup(key)
    \/ \E key \in Keys : AliasFetch(key)
    \/ \E h \in 1..MaxObjects : Mutate(h)
    \/ Tick

(***************************************************************************)
(* Cache keys: src/src/cache/prompt.js, normaliseObject and buildKey       *)
(*                                                                         *)
(* A JSON value is null, undefined, a string, an array or an object; an    *)
(* object is its properties in insertion order.  A serialised text is its  *)
(* sequence of tokens.                                                     *)
(***************************************************************************)

JNull == [t |-> "null"]
JUndefined == [t |-> "undefined"]
JStr(text) == [t |-> "string", s |-> text]
JArr(xs) == [t |-> "array", items |-> xs]
JObj(ps) == [t |-> "object", props |-> ps]
Prop(k, v) == [k |-> k, v |-> v]

\* The property names in use, in the order Array.prototype.sort gives them.
KeyRank(k) ==
    CASE k = "content" -> 1
      [] k = "name" -> 2
      [] k = "role" -> 3
      [] k = "type" -> 4
      [] OTHER -> 5

\* Object.keys(value).sort(): the properties by ascending name.
RECURSIVE SortProps(_)
SortProps(ps) ==
    IF ps = <<>>
    THEN <<>>
    ELSE LET least == CHOOSE i \in 1..Len(ps) :
                          \A j \in 1..Len(ps) : KeyRank(ps[i].k) <= KeyRank(ps[j].k)
         IN <<ps[least]>> \o
            SortProps(SubSeq(ps, 1, least - 1) \o SubSeq(ps, least + 1, Len(ps)))

\* Mutant: the properties are copied in the order they were inserted.
RECURSIVE normaliseObjectUnsorted(_)
normaliseObjectUnsorted(value) ==
    IF value.t \notin {"array", "object"}
    THEN value
    ELSE IF value.t = "array"
         THEN JArr([i \in 1..Len(value.items) |-> normaliseObjectUnsorted(value.items[i])])
         ELSE LET kept == SelectSeq(value.props, LAMBDA q : q.v.t # "undefined")
              IN JObj([i \in 1..Len(kept) |->
                          Prop(kept[i].k, normaliseObjectUnsorted(kept[i].v))])

RECURSIVE normaliseObject(_)
normaliseObject(value) ==
    IF value.t \notin {"array", "object"}
    THEN value
    ELSE IF value.t = "array"
         THEN JArr([i \in 1..Len(value.items) |-> normaliseObject(value.items[i])])
         ELSE LET kept == SelectSeq(SortProps(value.props),
                                    LAMBDA q : q.v.t # "undefined")
              IN JObj([i \in 1..Len(kept) |->
                          Prop(kept[i].k, normaliseObject(kept[i].v))])

RECURSIVE Flatten(_)
Flatten(texts) ==
    IF texts = <<>> THEN <<>> ELSE Head(texts) \o Flatten(Tail(texts))

\* JSON.stringify: undefined in an array is written null, an undefined
\* property is left out.
RECURSIVE JsonStringify(_)
JsonStringify(value) ==
    CASE value.t \in {"null", "undefined"} -> <<"null">>
      [] value.t = "string" -> <<"str", value.s>>
      [] value.t = "array" ->
            <<"[">> \o
            Flatten([i \in 1..Len(value.items) |-> JsonStringify(value.items[i])])
            \o <<"]">>
      [] value.t = "object" ->
            LET kept == SelectSeq(value.props, LAMBDA q : q.v.t # "undefined")
            IN <<"{">> \o
               Flatten([i \in 1..Len(kept) |->
                           <<"key", kept[i].k>> \o JsonStringify(kept[i].v)])
               \o <<"}">>

stableStringify(value) == JsonStringify(normaliseObject(value))

\* payload.f ?? null
OrNull(value) == IF value.t \in {"null", "undefined"} THEN JNull ELSE value

\* payload.f ? normaliseObject(payload.f) : null
Truthy(value) ==
    /\ value.t \notin {"null", "undefined"}
    /\ ~(value.t = "string" /\ value.s = "")

\* The fields that enter the key, in the order buildKey writes them.
KeyFields ==
    <<"model", "input", "messages", "tools", "tool_choice", "temperature",
      "top_p", "max_tokens">>

OtherFields == {"session_id", "stream"}

\* crypto's SHA-256 digest, taken to be free of collisions: the digest of a
\* text stands for the text.
Sha256(text) == text

\* The key of no request: buildKey's null.
NullKey == <<>>

buildKey(payload) ==
    IF ~enabled
    THEN NullKey
    ELSE LET canonical ==
                 JObj([i \in 1..Len(KeyFields) |->
                     LET f == KeyFields[i]
                     IN Prop(f, IF f \in {"messages", "tools", "tool_choice"}
                                THEN IF Truthy(payload[f])
                                     THEN normaliseObject(payload[f])
                                     ELSE JNull
                                ELSE OrNull(payload[f]))])
         IN Sha256(stableStringify(canonical))

\* Request bodies: the message list in both property orders, with an
\* undefined property, and with other contents; an empty-string, object and
\* absent tool_choice; a null and an absent temperature; with and without
\* fields that are not among the eight.
MessageLists ==
    {JUndefined,
     JArr(<<JObj(<<Prop("role", JStr("user")), Prop("content", JStr("hi"))>>)>>),
     JArr(<<JObj(<<Prop("content", JStr("hi")), Prop("role", JStr("user"))>>)>>),
     JArr(<<JObj(<<Prop("role", JStr("user")), Prop("name", JUndefined),
                   Prop("content", JStr("hi"))>>)>>),
     JArr(<<JObj(<<Prop("role", JStr("user")), Prop("content", JStr("bye"))>>)>>)}

ToolChoices == {JUndefined, JStr(""), JObj(<<Prop("type", JStr("auto"))>>)}

Payloads ==
    {[model |-> JStr("m"), input |-> JUndefined, messages |-> ms,
      tools |-> JUndefined, tool_choice |-> tc, temperature |-> tp,
      top_p |-> JUndefined, max_tokens |-> JUndefined,
      session_id |-> sid, stream |-> JUndefined] :
        ms \in MessageLists, tc \in ToolChoices, tp \in {JUndefined, JNull},
        sid \in {JUndefined, JStr("s1"), JStr("s2")}}

NoPayload ==
    [model |-> JUndefined, input |-> JUndefined, messages |-> JUndefined,
     tools |-> JUndefined, tool_choice |-> JUndefined, temperature |-> JUndefined,
     top_p |-> JUndefined, max_tokens |-> JUndefined,
     session_id |-> JUndefined, stream |-> JUndefined]

KeyInit ==
    keyCall = [done |-> FALSE, a |-> NoPayload, b |-> NoPayload,
               ka |-> NullKey, kb |-> NullKey]

KeyOff == KeyInit

\* buildKey on two request bodies.
BuildKey(a, b) ==
    /\ ~keyCall.done
    /\ keyCall' = [done |-> TRUE, a |-> a, b |-> b,
                   ka |-> buildKey(a), kb |-> buildKey(b)]
    /\ UNCHANGED <<wsVars, policyVars, cacheVars, aliasVars, mcpVars, execVars, apiVars, toolVars>>

KeyNext ==
    /\ ~keyCall.done
    /\ \E a \in Payloads, b \in Payloads : BuildKey(a, b)

(***************************************************************************)
(* MCP registry and client: src/src/mcp/registry.js, src/src/mcp/client.js *)
(*                                                                         *)
(* A step is what runs between two awaits: JavaScript runs a handler to    *)
(* its next await before any other handler.  The server behind a child is  *)
(* the environment: it may write any line at any time.                     *)
(***************************************************************************)

\* Most McpClient objects made in a behaviour.
MaxClients == 2

\* Most requests made on one client.
MaxRequests == 2

\* An absent id, name or label; no client; no child.
Absent == ""
NoClient == 0
NoChild == 0

\* A manifest entry: id, name, whether it has a command, transport.
ManifestEntry(id, name, command, transport) ==
    [id |-> id, name |-> name, command |-> command, transport |-> transport]

\* The manifests read: empty, a good server, one without a command, one
\* with a name for an id, one with neither, one with another transport,
\* and one id entered twice.
Manifests ==
    {<<>>,
     <<ManifestEntry("a", Absent, TRUE, Absent)>>,
     <<ManifestEntry("a", Absent, FALSE, Absent)>>,
     <<ManifestEntry(Absent, "n", TRUE, Absent)>>,
     <<ManifestEntry(Absent, Absent, TRUE, Absent)>>,
     <<ManifestEntry("a", Absent, TRUE, "http")>>,
     <<ManifestEntry("a", Absent, FALSE, Absent), ManifestEntry("a", Absent, TRUE, Absent)>>}

ServerIds == {"a", "n"}

NoServer == [present |-> FALSE, id |-> Absent, command |-> FALSE, transport |-> Absent]

\* normaliseServer: null (NoServer) without an id, a name or a label.
normaliseServer(entry) ==
    LET id == IF entry.id # Absent THEN entry.id ELSE entry.name
    IN IF id = Absent
       THEN NoServer
       ELSE [present |-> TRUE, id |-> id, command |-> entry.command,
             transport |-> IF entry.transport # Absent THEN entry.transport ELSE "stdio"]

\* registerServer on the servers map.
registerServer(srv, entry) ==
    LET server == normaliseServer(entry)
    IN IF ~server.present THEN srv ELSE [srv EXCEPT ![server.id] = server]

RECURSIVE loadServersFromEntries(_, _)
loadServersFromEntries(srv, entries) ==
    IF entries = <<>>
    THEN srv
    ELSE loadServersFromEntries(registerServer(srv, Head(entries)), Tail(entries))

\* listServers: the ids of the entries in the servers map.
listServers(srv) == {id \in ServerIds : srv[id].present}

\* The registry's state as one value, for the operators below.
McpState ==
    [servers |-> servers, clients |-> clients, objs |-> clientObjs,
     children |-> children, reqs |-> reqs]

\* new McpClient(server)
NewClient(sid) ==
    [server |-> sid, started |-> FALSE, closed |-> FALSE, nextId |-> 1,
     pending |-> {}, child |-> NoChild, rl |-> FALSE, initDone |-> FALSE]

\* A request of the history: pending, resolved or rejected; settles counts
\* the calls of its resolve and reject; early says it was resolved while
\* initialize was not yet completed.
NewRequest(c, id, method) ==
    [client |-> c, id |-> id, method |-> method, outcome |-> "pending",
     settles |-> 0, early |-> FALSE]

\* The requests of client c whose ids are in ids are settled with outcome.
Settle(rs, c, ids, outcome, initDone) ==
    [i \in 1..Len(rs) |->
        IF rs[i].client = c /\ rs[i].id \in ids
        THEN [rs[i] EXCEPT !.outcome = IF rs[i].settles = 0 THEN outcome ELSE @,
                           !.settles = @ + 1,
                           !.early = @ \/ (outcome = "resolved" /\ ~initDone
                                             /\ rs[i].method # "initialize")]
        ELSE rs[i]]

\* Mutant: close leaves the pending requests as they are.
closeClientKeepsPending(m, c) ==
    IF m.objs[c].closed
    THEN m
    ELSE [m EXCEPT !.objs[c].closed = TRUE, !.objs[c].rl = FALSE]

\* McpClient.close: nothing if closed already; else the flag is set, the
\* line reader closed, the child sent SIGTERM and forgotten, every pending
\* request rejected and the pending map cleared.
closeClient(m, c) ==
    IF m.objs[c].closed
    THEN m
    ELSE LET o == m.objs[c]
         IN [m EXCEPT
                !.objs[c] = [o EXCEPT !.closed = TRUE, !.rl = FALSE,
                                      !.child = NoChild, !.pending = {},
                                      !.initDone = @ \/ (1 \in o.pending)],
                !.children = IF o.child = NoChild
                             THEN @
                             ELSE [@ EXCEPT ![o.child].killed = TRUE],
                !.reqs = Settle(@, c, o.pending, "rejected", o.initDone)]

RECURSIVE CloseAll(_, _)
CloseAll(m, cs) ==
    IF cs = {}
    THEN m
    ELSE LET c == CHOOSE x \in cs : TRUE
         IN CloseAll(closeClient(m, c), cs \ {c})

\* clearServers
clearServers(m) ==
    LET closedAll == CloseAll(m, {m.clients[id] : id \in ServerIds} \ {NoClient})
    IN [closedAll EXCEPT !.servers = [id \in ServerIds |-> NoServer],
                         !.clients = [id \in ServerIds |-> NoClient]]

\* McpClient.request up to its return: it throws on a client not started
\* or closed; else it takes the next id, enters it in pending and writes
\* the line; a write that throws takes the id out again and rejects.
requestThrows(o) == ~o.started \/ o.closed

request(m, c, method, writeThrows) ==
    LET o == m.objs[c]
        id == o.nextId
        sent == [m EXCEPT !.objs[c] = [o EXCEPT !.nextId = id + 1,
                                                !.pending = @ \cup {id}],
                          !.reqs = Append(@, NewRequest(c, id, method))]
    IN IF requestThrows(o)
       THEN m
       ELSE IF writeThrows
            THEN [sent EXCEPT !.objs[c].pending = @ \ {id},
                              !.reqs = Settle(@, c, {id}, "rejected", o.initDone)]
            ELSE sent

\* McpClient.start up to its first await: a missing command throws; else
\* the child is spawned, the listeners are attached, started is set and
\* initialize is requested (its failure is logged and swallowed).
start(m, c, spawnOk) ==
    LET o == m.objs[c]
        child == Len(m.children) + 1
        spawned ==
            [m EXCEPT !.objs[c] = [o EXCEPT !.started = TRUE, !.rl = TRUE,
                                            !.child = child],
                      !.children = Append(@, [server |-> o.server, client |-> c,
                                              state |-> IF spawnOk THEN "alive" ELSE "failed",
                                              killed |-> FALSE])]
    IN IF o.started \/ ~m.servers[o.server].command
       THEN m
       ELSE IF requestThrows(spawned.objs[c])
            THEN [spawned EXCEPT !.objs[c].initDone = TRUE]
            ELSE request(spawned, c, "initialize", FALSE)

startThrows(m, c) == ~m.objs[c].started /\ ~m.servers[m.objs[c].server].command

\* ensureClient that makes a new client in place of a closed one.
ensureClientAnew(m, sid, spawnOk) ==
    IF (m.clients[sid] # NoClient /\ ~m.objs[m.clients[sid]].closed)
          \/ ~m.servers[sid].present
          \/ m.servers[sid].transport # "stdio"
    THEN m
    ELSE LET c == Len(m.objs) + 1
             made == [m EXCEPT !.objs = Append(@, NewClient(sid)),
                               !.clients[sid] = c]
         IN IF startThrows(made, c)
            THEN [made EXCEPT !.clients[sid] = NoClient]
            ELSE start(made, c, spawnOk)

\* ensureClient(serverId) up to its await of start(): the client it has, or
\* none for an unknown server or another transport; else a new McpClient is
\* entered in clients and started, and taken out again if start() throws.
ensureClient(m, sid, spawnOk) ==
    IF m.clients[sid] # NoClient \/ ~m.servers[sid].present
          \/ m.servers[sid].transport # "stdio"
    THEN m
    ELSE LET c == Len(m.objs) + 1
             made == [m EXCEPT !.objs = Append(@, NewClient(sid)),
                               !.clients[sid] = c]
         IN IF startThrows(made, c)
            THEN [made EXCEPT !.clients[sid] = NoClient]
            ELSE start(made, c, spawnOk)

RECURSIVE EnsureAll(_, _, _)
EnsureAll(m, ids, spawnOk) ==
    IF ids = {}
    THEN m
    ELSE LET id == CHOOSE x \in ids : TRUE
         IN EnsureAll(ensureClient(m, id, spawnOk), ids \ {id}, spawnOk)

\* loadConfiguredServers: clearServers, the manifests' entries registered,
\* then ensureClient for every server listed.
loadConfiguredServers(m, entries, spawnOk) ==
    LET cleared == clearServers(m)
        loaded == [cleared EXCEPT !.servers = loadServersFromEntries(@, entries)]
    IN EnsureAll(loaded, listServers(loaded.servers), spawnOk)

\* The names the last module.exports of mcp/registry.js carries; mcp/index.js
\* hands on what it finds under these names.
RegistryExports ==
    {"registerServer", "listServers", "getServer", "clearServers",
     "loadFromManifest", "loadConfiguredServers", "hasLoadedManifest"}

\* require("../mcp").ensureClient is a function only if the registry exports it.
ImportedEnsureClient == "ensureClient" \in RegistryExports

\* mcp_<sanitised server id>_<sanitised tool name>, for the one tool a
\* server lists.
RemoteToolName(sid) == <<"mcp", sid, "tool">>

\* The last operation: its name, the client it was on, whether it threw,
\* and for a line its id and error, for a load the entries read.
NoMcpOp ==
    [op |-> "none", client |-> NoClient, threw |-> FALSE, id |-> 0,
     error |-> FALSE, entries |-> <<>>]
McpOp(op, c, threw, id) == [NoMcpOp EXCEPT !.op = op, !.client = c, !.threw = threw, !.id = id]

McpInit ==
    /\ servers = [id \in ServerIds |-> NoServer]
    /\ clients = [id \in ServerIds |-> NoClient]
    /\ clientObjs = <<>>
    /\ children = <<>>
    /\ reqs = <<>>
    /\ held = {}
    /\ remoteTools = {}
    /\ lastMcp = NoMcpOp

McpOff == McpInit

\* The registry's state after an operator ran.
Becomes(m) ==
    /\ servers' = m.servers
    /\ clients' = m.clients
    /\ clientObjs' = m.objs
    /\ children' = m.children
    /\ reqs' = m.reqs

\* Boot (initialiseMcp) and refresh (workspace_mcp_servers).
LoadConfiguredServers(entries, spawnOk) ==
    /\ Len(clientObjs) < MaxClients
    /\ Becomes(loadConfiguredServers(McpState, entries, spawnOk))
    /\ lastMcp' = [McpOp("loadConfiguredServers", NoClient, FALSE, 0)
                      EXCEPT !.entries = entries]
    /\ UNCHANGED <<held, remoteTools>>
    /\ UNCHANGED notMcp

\* ensureClient(serverId) called as the registry module defines it.  A caller
\* that finds the client in the map has it at once, also while the start()
\* of the caller that made it still awaits initialize.
EnsureClient(sid, spawnOk) ==
    /\ clients[sid] # NoClient \/ Len(clientObjs) < MaxClients
    /\ Becomes(ensureClient(McpState, sid, spawnOk))
    /\ held' = IF clients[sid] # NoClient THEN held \cup {clients[sid]} ELSE held
    /\ lastMcp' = McpOp("ensureClient", clients[sid], FALSE, 0)
    /\ UNCHANGED remoteTools
    /\ UNCHANGED notMcp

\* client.request(method, params) by a caller that has the client.
Request(c, writeThrows) ==
    /\ c \in held
    /\ requestThrows(clientObjs[c]) \/ clientObjs[c].nextId <= MaxRequests
    /\ Becomes(request(McpState, c, "call", writeThrows))
    /\ lastMcp' = McpOp("request", c, requestThrows(clientObjs[c]),
                        IF requestThrows(clientObjs[c]) THEN 0 ELSE clientObjs[c].nextId)
    /\ UNCHANGED <<held, remoteTools>>
    /\ UNCHANGED notMcp

\* Mutant: a response settles its request and leaves it in pending.
handleMessageKeepsPending(m, c, id, error) ==
    LET o == m.objs[c]
    IN IF id = 0 \/ id \notin o.pending
       THEN m
       ELSE [m EXCEPT !.reqs = Settle(@, c, {id},
                                      IF error THEN "rejected" ELSE "resolved",
                                      o.initDone)]

\* handleMessage: a message with an id settles the pending request of that
\* id and removes it; error says it carries a truthy error.  id 0 stands
\* for a message without an id, a notification.
handleMessage(m, c, id, error) ==
    LET o == m.objs[c]
    IN IF id = 0 \/ id \notin o.pending
       THEN m
       ELSE [m EXCEPT !.objs[c] = [o EXCEPT !.pending = @ \ {id},
                                            !.initDone = @ \/ id = 1],
                      !.reqs = Settle(@, c, {id},
                                      IF error THEN "rejected" ELSE "resolved",
                                      o.initDone)]

\* The requests of client c that are resolved, by method.
ResolvedMethods(rs, c) ==
    {rs[i].method : i \in {j \in 1..Len(rs) : rs[j].client = c /\ rs[j].outcome = "resolved"}}

\* A line from the child's stdout reaches the client's line listener (also
\* after the reader was closed: lines already read are still delivered).
\* A tools/list answered to registerRemoteTools registers the proxy tool.
Line(c, id, error) ==
    /\ c \in 1..Len(clientObjs)
    /\ clientObjs[c].started
    /\ error => id # 0
    /\ LET m == handleMessage(McpState, c, id, error)
       IN /\ Becomes(m)
          /\ remoteTools' =
                IF "tools/list" \in ResolvedMethods(m.reqs, c)
                THEN remoteTools \cup {RemoteToolName(clientObjs[c].server)}
                ELSE remoteTools
    /\ lastMcp' = [McpOp("line", c, FALSE, id) EXCEPT !.error = error]
    /\ UNCHANGED held
    /\ UNCHANGED notMcp

\* The child's exit event, or the error event of a spawn that failed: the
\* listener closes the client the child was spawned for.
ChildEvent(ch) ==
    /\ ch \in 1..Len(children)
    /\ children[ch].state \in {"alive", "failed"}
    /\ Becomes([closeClient(McpState, children[ch].client)
                    EXCEPT !.children[ch].state = "gone"])
    /\ lastMcp' = McpOp("childEvent", children[ch].client, FALSE, 0)
    /\ UNCHANGED <<held, remoteTools>>
    /\ UNCHANGED notMcp

\* client.close() by a caller that has the client.
Close(c) ==
    /\ c \in held
    /\ Becomes(closeClient(McpState, c))
    /\ lastMcp' = McpOp("close", c, FALSE, 0)
    /\ UNCHANGED <<held, remoteTools>>
    /\ UNCHANGED notMcp

\* registerServer(entry), as exported: the entry is entered, nothing spawned.
RegisterServer(entry) ==
    /\ servers' = registerServer(servers, entry)
    /\ lastMcp' = [McpOp("registerServer", NoClient, FALSE, 0)
                      EXCEPT !.entries = <<entry>>]
    /\ UNCHANGED <<clients, clientObjs, children, reqs, held, remoteTools>>
    /\ UNCHANGED notMcp

ClearServers ==
    /\ Becomes(clearServers(McpState))
    /\ lastMcp' = McpOp("clearServers", NoClient, FALSE, 0)
    /\ UNCHANGED <<held, remoteTools>>
    /\ UNCHANGED notMcp

\* registerRemoteTools, for each server listed: await ensureClient(server.id),
\* then tools/list on the client.  With ensureClient not a function the
\* call throws, the throw is caught and logged, and the server is left.
RECURSIVE ListToolsAll(_, _)
ListToolsAll(m, ids) ==
    IF ids = {}
    THEN m
    ELSE LET id == CHOOSE x \in ids : TRUE
             ensured == ensureClient(m, id, TRUE)
             c == ensured.clients[id]
         IN ListToolsAll(IF c = NoClient \/ requestThrows(ensured.objs[c])
                         THEN ensured
                         ELSE request(ensured, c, "tools/list", FALSE),
                         ids \ {id})

RegisterRemoteTools ==
    /\ Becomes(IF ImportedEnsureClient
               THEN ListToolsAll(McpState, listServers(servers))
               ELSE McpState)
    /\ lastMcp' = McpOp("registerRemoteTools", NoClient,
                        ~ImportedEnsureClient /\ listServers(servers) # {}, 0)
    /\ UNCHANGED <<held, remoteTools>>
    /\ UNCHANGED notMcp

\* workspace_mcp_call({server, method}): await ensureClient(serverId), then
\* client.request(method, params); a throw reaches executeToolCall.
WorkspaceMcpCall(sid) ==
    /\ LET ensured == ensureClient(McpState, sid, TRUE)
           c == ensured.clients[sid]
       IN IF ~ImportedEnsureClient
          THEN /\ Becomes(McpState)
               /\ lastMcp' = McpOp("workspace_mcp_call", NoClient, TRUE, 0)
          ELSE /\ Becomes(IF c = NoClient \/ requestThrows(ensured.objs[c])
                          THEN ensured
                          ELSE request(ensured, c, "call", FALSE))
               /\ lastMcp' = McpOp("workspace_mcp_call", c,
                                   c = NoClient \/ requestThrows(ensured.objs[c]), 0)
    /\ UNCHANGED <<held, remoteTools>>
    /\ UNCHANGED notMcp

\* The registry: loads, clients made and closed, children exiting.
McpNext ==
    \/ \E entries \in Manifests, spawnOk \in BOOLEAN :
            LoadConfiguredServers(entries, spawnOk)
    \/ \E sid \in ServerIds, spawnOk \in BOOLEAN : EnsureClient(sid, spawnOk)
    \/ \E c \in 1..MaxClients, id \in 0..(MaxRequests + 1), error \in BOOLEAN :
            Line(c, id, error)
    \/ \E ch \in 1..MaxClients : ChildEvent(ch)
    \/ \E c \in 1..MaxClients : Close(c)
    \/ ClearServers

(***************************************************************************)
(* Tool execution: src/src/tools/index.js, executeToolCall with the        *)
(* handler's behaviour as the environment gives it                         *)
(***************************************************************************)

\* A tool call as it reaches executeToolCall: named says whether
\* call.function.name ?? call.name is defined.
ToolCall(named, name) == [named |-> named, name |-> name]

ToolCalls ==
    {ToolCall(FALSE, "")}
    \cup {ToolCall(TRUE, n) :
              n \in {"shell", "bash", "Workspace_Git_Push", "push", "no_such_tool"}}

\* What a handler does: it returns a string, undefined, or an object whose
\* ok, status and content are each absent or given, or throws an Error.
HandlerResult(kind, ok, status, content) ==
    [kind |-> kind, ok |-> ok, status |-> status, content |-> content]

HandlerResults ==
    {HandlerResult("string", "absent", 0, "string"),
     HandlerResult("undefined", "absent", 0, "absent"),
     HandlerResult("throws", "absent", 0, "absent")}
    \cup {HandlerResult("object", ok, status, content) :
              ok \in {"absent", "true", "false"}, status \in {0, 200, 400},
              content \in {"absent", "string", "object"}}

\* coerceString: the kind of value it returns.
coerceString(content) == "string"

\* normalizeHandlerResult: ok, status and the kind of content.
normalizeHandlerResult(result) ==
    IF result.kind \in {"string", "undefined"}
    THEN [ok |-> TRUE, status |-> 200, content |-> "string"]
    ELSE LET ok == result.ok # "false"
         IN [ok |-> ok,
             status |-> IF result.status # 0 THEN result.status
                        ELSE IF ok THEN 200 ELSE 500,
             content |-> coerceString(result.content)]

Rejected ==
    [settled |-> "rejected", ok |-> FALSE, status |-> 0, content |-> "absent",
     error |-> "TypeError", registered |-> FALSE]

Resolved(ok, status, content, error, registered) ==
    [settled |-> "resolved", ok |-> ok, status |-> status, content |-> content,
     error |-> error, registered |-> registered]

\* executeToolCall as a promise: resolved with a tool result, or rejected.
\* With no name, registry.get(undefined) finds nothing and
\* normalisedCall.name.toLowerCase() throws outside the try block.
executeToolCallSettles(call, handler) ==
    IF ~call.named
    THEN Rejected
    ELSE IF DispatchName(call.name) = ""
         THEN Resolved(FALSE, 404, coerceString("object"), "tool_not_registered", FALSE)
         ELSE IF handler.kind = "throws"
              THEN Resolved(FALSE, 500, coerceString("object"),
                            "tool_execution_failed", TRUE)
              ELSE LET formatted == normalizeHandlerResult(handler)
                   IN Resolved(formatted.ok, formatted.status, formatted.content,
                               "none", TRUE)

NoExec ==
    [done |-> FALSE, call |-> ToolCall(FALSE, ""),
     handler |-> HandlerResult("undefined", "absent", 0, "absent"),
     result |-> Rejected]

ExecInit == execCall = NoExec

ExecOff == ExecInit

\* executeToolCall(call, context) with a handler that behaves as given.
ExecuteAnyToolCall(call, handler) ==
    /\ ~execCall.done
    /\ execCall' = [done |-> TRUE, call |-> call, handler |-> handler,
                    result |-> executeToolCallSettles(call, handler)]
    /\ UNCHANGED <<wsVars, policyVars, cacheVars, aliasVars, keyVars, mcpVars, apiVars, toolVars>>

ExecNext ==
    /\ ~execCall.done
    /\ \E call \in ToolCalls, handler \in HandlerResults :
           ExecuteAnyToolCall(call, handler)

(***************************************************************************)
(* Session store: src/unnamed/part_009 over the tables of src/src/db       *)
(***************************************************************************)

\* The clock stops here, and no more rows than this are ever inserted.
MaxTime == 2
MaxRows == 2

\* Session ids clients supply, and the one crypto.randomUUID() gives.
SessionIds == {<<"s1">>, <<"s2">>}
GeneratedId == <<"uuid">>
AllSessionIds == SessionIds \cup {GeneratedId}

JNum(n) == [t |-> "number", n |-> n]
SqlNull == [t |-> "sqlnull"]
SqlText(s) == [t |-> "text", s |-> s]

\* The texts that occur in turns, and the JSON values built from them.
Texts == {"hi", "user", "assistant", "tool", "message", "tool_result", "x"}

JsonValues ==
    {JNull, JObj(<<>>)} \cup {JStr(s) : s \in Texts}
    \cup {JObj(<<Prop("name", JStr(s))>>) : s \in {"hi", "x"}}
    \cup {JObj(<<Prop("role", JStr("assistant")), Prop("content", JStr(s))>>) :
              s \in {"hi", "step_limit", "tool_limit_reached"}}

\* serialize(value): null for undefined, else the JSON text of the value.
serialize(value) ==
    IF value.t = "undefined" THEN SqlNull ELSE SqlText(JsonStringify(value))

\* JSON.parse of a text JSON.stringify wrote: the value that text denotes.
JsonParse(s) == CHOOSE v \in JsonValues : JsonStringify(v) = s

\* parseJSON(value, fallback).
parseJSON(value, fallback) ==
    IF value.t = "sqlnull" THEN fallback ELSE JsonParse(value.s)

\* a ?? b
Coalesce(a, b) == IF a.t \in {"null", "undefined", "sqlnull"} THEN b ELSE a

\* A row of the sessions table under its id; copies counts the rows with
\* that id, which the primary key keeps at one.
NoRow ==
    [present |-> FALSE, created_at |-> 0, updated_at |-> 0, metadata |-> SqlNull,
     copies |-> 0]
SessionRow(c, u, m) ==
    [present |-> TRUE, created_at |-> c, updated_at |-> u, metadata |-> m, copies |-> 1]

\* A turn as a caller passes it: each field a value or undefined.
Turn(role, type, status, content, metadata, timestamp) ==
    [role |-> role, type |-> type, status |-> status, content |-> content,
     metadata |-> metadata, timestamp |-> timestamp]

\* selectHistoryStmt.all(id): the session's rows ORDER BY timestamp ASC, id ASC.
RECURSIVE OrderByTimestampId(_)
OrderByTimestampId(rows) ==
    IF rows = <<>>
    THEN <<>>
    ELSE LET least == CHOOSE i \in 1..Len(rows) :
                          \A j \in 1..Len(rows) :
                              \/ rows[i].timestamp < rows[j].timestamp
                              \/ /\ rows[i].timestamp = rows[j].timestamp
                                 /\ rows[i].id <= rows[j].id
         IN <<rows[least]>> \o
            OrderByTimestampId(SubSeq(rows, 1, least - 1)
                               \o SubSeq(rows, least + 1, Len(rows)))

selectHistoryStmt(table, sessionId) ==
    OrderByTimestampId(SelectSeq(table, LAMBDA row : row.session_id = sessionId))

\* toSession(row, historyRows).
toSession(id, row, historyRows) ==
    [t |-> "session",
     id |-> id,
     createdAt |-> row.created_at,
     updatedAt |-> row.updated_at,
     metadata |-> Coalesce(parseJSON(row.metadata, JObj(<<>>)), JObj(<<>>)),
     history |->
        [i \in 1..Len(historyRows) |->
            Turn(Coalesce(historyRows[i].role, JUndefined),
                 Coalesce(historyRows[i].type, JUndefined),
                 Coalesce(historyRows[i].status, JUndefined),
                 parseJSON(historyRows[i].content, JNull),
                 Coalesce(parseJSON(historyRows[i].metadata, JNull), JUndefined),
                 JNum(historyRows[i].timestamp))]]

\* getSession(sessionId) over the two tables: the session, or null.
getSession(table, history, sessionId) ==
    IF ~table[sessionId].present
    THEN JNull
    ELSE toSession(sessionId, table[sessionId], selectHistoryStmt(history, sessionId))

\* createSession(sessionId): the sessions table with the new row.
createSession(table, sessionId, at) ==
    [table EXCEPT ![sessionId] = SessionRow(at, at, serialize(JObj(<<>>)))]

\* The timestamp appendSessionTurn stores: turn.timestamp ?? Date.now().
TimestampOf(turn, at) ==
    IF turn.timestamp.t = "number" THEN turn.timestamp.n ELSE at

\* The row insertHistoryStmt.run writes.
HistoryRow(rowId, sessionId, turn, at) ==
    [id |-> rowId,
     session_id |-> sessionId,
     role |-> Coalesce(turn.role, SqlNull),
     type |-> Coalesce(turn.type, SqlNull),
     status |-> IF turn.status.t = "number" THEN turn.status ELSE SqlNull,
     content |-> serialize(turn.content),
     metadata |-> serialize(turn.metadata),
     timestamp |-> TimestampOf(turn, at)]

\* The sessions row after appendSessionTurn's update.
TouchedRow(row, turn, metadata, at) ==
    IF metadata.t # "undefined"
    THEN [row EXCEPT !.updated_at = TimestampOf(turn, at),
                     !.metadata = Coalesce(serialize(metadata), serialize(JObj(<<>>)))]
    ELSE [row EXCEPT !.updated_at = TimestampOf(turn, at)]

\* The tables, and what appendSessionTurn makes of them when the session
\* has a row: the history row inserted, the session's row touched.
Db(table, history, seq) ==
    [sessions |-> table, session_history |-> history, historySeq |-> seq]

\* appendSessionTurn whose insert takes the place of the table's last row.
appendSessionTurnOverLast(db, sessionId, turn, metadata, at) ==
    Db([db.sessions EXCEPT ![sessionId] = TouchedRow(@, turn, metadata, at)],
       SubSeq(db.session_history, 1, Len(db.session_history) - 1)
           \o <<HistoryRow(db.historySeq + 1, sessionId, turn, at)>>,
       db.historySeq + 1)

\* appendSessionTurn on a session that has a row.
appendSessionTurn(db, sessionId, turn, metadata, at) ==
    Db([db.sessions EXCEPT ![sessionId] = TouchedRow(@, turn, metadata, at)],
       Append(db.session_history, HistoryRow(db.historySeq + 1, sessionId, turn, at)),
       db.historySeq + 1)

NoTurn == Turn(JUndefined, JUndefined, JUndefined, JUndefined, JUndefined, JUndefined)
NoApi == [op |-> "none", id |-> <<>>, turn |-> NoTurn, at |-> 0,
          result |-> JUndefined, threw |-> FALSE]
ApiOp(op, id, turn, result, threw) ==
    [op |-> op, id |-> id, turn |-> turn, at |-> clock, result |-> result, threw |-> threw]

NoReq == [route |-> "none"]
NoRes == [sent |-> FALSE]
NoLoop == [pc |-> "idle"]

StoreOff ==
    /\ sessions = [id \in AllSessionIds |-> NoRow]
    /\ session_history = <<>>
    /\ historySeq = 0
    /\ clock = 0

HttpOff ==
    /\ req = NoReq
    /\ res = NoRes
    /\ loop = NoLoop
    /\ lastApi = NoApi

\* The requests in flight at once, each before its first step.
Flights == {"A", "B"}
NoFlight == [pc |-> "idle"]
FlightOff == inflight = [r \in Flights |-> NoFlight]

ApiOff == StoreOff /\ HttpOff /\ FlightOff

\* getSession(sessionId) as a caller's operation.
GetSession(sessionId) ==
    /\ lastApi' = ApiOp("getSession", sessionId, NoTurn,
                        getSession(sessions, session_history, sessionId), FALSE)
    /\ UNCHANGED <<storeVars, req, res, loop>>
    /\ UNCHANGED flightVars
    /\ UNCHANGED notApi

\* getOrCreateSession(sessionId): the session, made when there is none.
GetOrCreateSession(sessionId) ==
    /\ sessions' = IF sessions[sessionId].present
                   THEN sessions
                   ELSE createSession(sessions, sessionId, clock)
    /\ lastApi' = ApiOp("getOrCreateSession", sessionId, NoTurn,
                        getSession(sessions', session_history, sessionId), FALSE)
    /\ UNCHANGED <<session_history, historySeq, clock, req, res, loop>>
    /\ UNCHANGED flightVars
    /\ UNCHANGED notApi

\* appendSessionTurn(sessionId, turn, metadata).  The insert fails on the
\* foreign key when the session has no row, and the call throws.
AppendSessionTurn(sessionId, turn, metadata) ==
    /\ historySeq < MaxRows
    /\ IF sessions[sessionId].present
       THEN /\ LET db == appendSessionTurn(Db(sessions, session_history, historySeq),
                                           sessionId, turn, metadata, clock)
               IN /\ sessions' = db.sessions
                  /\ session_history' = db.session_history
                  /\ historySeq' = db.historySeq
            /\ lastApi' = ApiOp("appendSessionTurn", sessionId, turn,
                                [turn EXCEPT !.timestamp = JNum(TimestampOf(turn, clock))],
                                FALSE)
       ELSE /\ lastApi' = ApiOp("appendSessionTurn", sessionId, turn, JUndefined, TRUE)
            /\ UNCHANGED <<sessions, session_history, historySeq>>
    /\ UNCHANGED <<clock, req, res, loop>>
    /\ UNCHANGED flightVars
    /\ UNCHANGED notApi

\* deleteSession without its history delete and without the cascade.
DeleteSessionRowOnly(sessionId) ==
    /\ sessions' = [sessions EXCEPT ![sessionId] = NoRow]
    /\ lastApi' = ApiOp("deleteSession", sessionId, NoTurn, JUndefined, FALSE)
    /\ UNCHANGED <<session_history, historySeq, clock, req, res, loop>>
    /\ UNCHANGED flightVars
    /\ UNCHANGED notApi

\* deleteSession(sessionId): the session's rows go with it.
DeleteSession(sessionId) ==
    /\ sessions' = [sessions EXCEPT ![sessionId] = NoRow]
    /\ session_history' =
           SelectSeq(session_history, LAMBDA row : row.session_id # sessionId)
    /\ lastApi' = ApiOp("deleteSession", sessionId, NoTurn, JUndefined, FALSE)
    /\ UNCHANGED <<historySeq, clock, req, res, loop>>
    /\ UNCHANGED flightVars
    /\ UNCHANGED notApi

\* Time passes.
ClockTick ==
    /\ clock < MaxTime
    /\ clock' = clock + 1
    /\ lastApi' = ApiOp("tick", <<>>, NoTurn, JUndefined, FALSE)
    /\ UNCHANGED <<sessions, session_history, historySeq, req, res, loop>>
    /\ UNCHANGED flightVars
    /\ UNCHANGED notApi

\* The turns callers append: with and without a timestamp of their own.
Turns ==
    {Turn(JStr("user"), JStr("message"), JUndefined, JStr("hi"), JUndefined, ts) :
        ts \in {JUndefined} \cup {JNum(n) : n \in 0..MaxTime}}
    \cup {Turn(JStr("tool"), JStr("tool_result"), JNum(200),
               JObj(<<Prop("name", JStr("x"))>>), JObj(<<Prop("name", JStr("hi"))>>),
               JUndefined),
          Turn(JStr("assistant"), JUndefined, JUndefined, JNull, JObj(<<>>), JUndefined)}

\* upsertSession(sessionId, data): the row written with data.metadata ?? {},
\* data.updatedAt ?? Date.now() and, for a new row, data.createdAt ?? updatedAt.
upsertSession(table, sessionId, data, at) ==
    LET metadata == IF data.metadata.t \in {"undefined", "null"}
                    THEN JObj(<<>>) ELSE data.metadata
        updatedAt == IF data.updatedAt.t = "number" THEN data.updatedAt.n ELSE at
        createdAt == IF data.createdAt.t = "number" THEN data.createdAt.n ELSE updatedAt
    IN IF table[sessionId].present
       THEN [table EXCEPT ![sessionId].updated_at = updatedAt,
                          ![sessionId].metadata = serialize(metadata)]
       ELSE [table EXCEPT ![sessionId] =
                 SessionRow(createdAt, updatedAt, serialize(metadata))]

UpsertSession(sessionId, data) ==
    /\ sessions' = upsertSession(sessions, sessionId, data, clock)
    /\ lastApi' = ApiOp("upsertSession", sessionId, NoTurn,
                        getSession(sessions', session_history, sessionId), FALSE)
    /\ UNCHANGED <<session_history, historySeq, clock, req, res, loop>>
    /\ UNCHANGED flightVars
    /\ UNCHANGED notApi

SessionData(metadata, createdAt, updatedAt) ==
    [metadata |-> metadata, createdAt |-> createdAt, updatedAt |-> updatedAt]

\* The metadata argument callers leave out or pass empty.
EmptyObject == JObj(<<>>)
AppendMetadata == {JUndefined, EmptyObject}

\* What callers pass to upsertSession: metadata or none, no dates of their
\* own.
UpsertData ==
    {SessionData(metadata, JUndefined, JUndefined) :
        metadata \in {JUndefined, JObj(<<Prop("name", JStr("hi"))>>)}}

\* The one turn the sessions are followed with.
SessionTurns ==
    {Turn(JStr("user"), JStr("message"), JUndefined, JStr("hi"), JUndefined, JUndefined)}

StoreInit == StoreOff /\ HttpOff /\ FlightOff

StoreNext ==
    \/ \E id \in SessionIds : GetSession(id)
    \/ \E id \in SessionIds : GetOrCreateSession(id)
    \/ \E turn \in Turns, metadata \in AppendMetadata :
            AppendSessionTurn(<<"s1">>, turn, metadata)
    \/ DeleteSession(<<"s1">>)
    \/ ClockTick

\* The four writers of the store and its reader, over both session ids.
SessionsNext ==
    \/ \E id \in SessionIds : GetSession(id)
    \/ \E id \in SessionIds : GetOrCreateSession(id)
    \/ \E id \in SessionIds, data \in UpsertData : UpsertSession(id, data)
    \/ \E id \in SessionIds, turn \in SessionTurns, metadata \in AppendMetadata :
            AppendSessionTurn(id, turn, metadata)
    \/ \E id \in SessionIds : DeleteSession(id)

(***************************************************************************)
(* HTTP surface: src/src/api/middleware/session.js, src/src/api/router.js  *)
(***************************************************************************)

PRIMARY_HEADER == "x-session-id"
FALLBACK_HEADERS ==
    <<"x-claude-session-id", "x-claude-session", "x-claude-conversation-id",
      "anthropic-session-id">>
BodyIdFields == <<"session_id", "sessionId", "conversation_id">>

HeaderNames == {PRIMARY_HEADER} \cup {FALLBACK_HEADERS[i] : i \in 1..Len(FALLBACK_HEADERS)}
BodyIdNames == {BodyIdFields[i] : i \in 1..Len(BodyIdFields)}

\* String.prototype.trim on a text of characters, " " the white space.
RECURSIVE TrimStart(_)
TrimStart(s) == IF s # <<>> /\ Head(s) = " " THEN TrimStart(Tail(s)) ELSE s

RECURSIVE TrimEnd(_)
TrimEnd(s) ==
    IF s # <<>> /\ s[Len(s)] = " " THEN TrimEnd(SubSeq(s, 1, Len(s) - 1)) ELSE s

Trim(s) == TrimEnd(TrimStart(s))

\* normaliseSessionId(value): the trimmed text, or null.
normaliseSessionId(value) ==
    IF value.t # "string"
    THEN JNull
    ELSE IF Len(Trim(value.s)) > 0 THEN JStr(Trim(value.s)) ELSE JNull

\* The for loop over FALLBACK_HEADERS from header i on: the first candidate.
RECURSIVE FallbackCandidate(_, _)
FallbackCandidate(headers, i) ==
    IF i > Len(FALLBACK_HEADERS)
    THEN JNull
    ELSE IF normaliseSessionId(headers[FALLBACK_HEADERS[i]]) # JNull
         THEN normaliseSessionId(headers[FALLBACK_HEADERS[i]])
         ELSE FallbackCandidate(headers, i + 1)

\* extractSessionId with the body fields consulted before the fallback headers.
extractSessionIdBodyFirst(headers, body) ==
    LET primary == normaliseSessionId(headers[PRIMARY_HEADER])
        fallback == FallbackCandidate(headers, 1)
        bodyId == Coalesce(normaliseSessionId(body["session_id"]),
                           Coalesce(normaliseSessionId(body["sessionId"]),
                                    normaliseSessionId(body["conversation_id"])))
    IN IF primary # JNull THEN [id |-> primary.s, generated |-> FALSE]
       ELSE IF bodyId # JNull THEN [id |-> bodyId.s, generated |-> FALSE]
       ELSE IF fallback # JNull THEN [id |-> fallback.s, generated |-> FALSE]
       ELSE [id |-> GeneratedId, generated |-> TRUE]

\* extractSessionId(req): the id, and whether it was generated.
extractSessionId(headers, body) ==
    LET primary == normaliseSessionId(headers[PRIMARY_HEADER])
        fallback == FallbackCandidate(headers, 1)
        bodyId == Coalesce(normaliseSessionId(body["session_id"]),
                           Coalesce(normaliseSessionId(body["sessionId"]),
                                    normaliseSessionId(body["conversation_id"])))
    IN IF primary # JNull THEN [id |-> primary.s, generated |-> FALSE]
       ELSE IF fallback # JNull THEN [id |-> fallback.s, generated |-> FALSE]
       ELSE IF bodyId # JNull THEN [id |-> bodyId.s, generated |-> FALSE]
       ELSE [id |-> GeneratedId, generated |-> TRUE]

NoHeaders == [h \in HeaderNames |-> JUndefined]
NoBodyIds == [f \in BodyIdNames |-> JUndefined]

HttpRequest(route, headers, body, stream, messages) ==
    [route |-> route, headers |-> headers, body |-> body, stream |-> stream,
     messages |-> messages]

\* sessionMiddleware on an arriving request: req.sessionId and req.session
\* are set, the session being made when the store has none.
SessionMiddleware(incoming) ==
    /\ req = NoReq
    /\ LET extracted == extractSessionId(incoming.headers, incoming.body)
           table == IF sessions[extracted.id].present
                    THEN sessions
                    ELSE createSession(sessions, extracted.id, clock)
       IN /\ sessions' = table
          /\ req' = [route |-> incoming.route,
                     headers |-> incoming.headers,
                     body |-> incoming.body,
                     stream |-> incoming.stream,
                     messages |-> incoming.messages,
                     sessionId |-> extracted.id,
                     generatedSessionId |-> extracted.generated,
                     session |-> getSession(table, session_history, extracted.id)]
          /\ lastApi' = ApiOp("sessionMiddleware", extracted.id, NoTurn,
                              IF sessions[extracted.id].present
                              THEN JStr("existing") ELSE JStr("created"), FALSE)
    /\ UNCHANGED <<session_history, historySeq, clock, res, loop>>
    /\ UNCHANGED flightVars
    /\ UNCHANGED notApi

HttpResponse(status, body) ==
    [sent |-> TRUE, status |-> status, body |-> body, events |-> <<>>, ended |-> TRUE]

\* router.get("/debug/session").
DebugSession ==
    /\ req.route = "GET /debug/session"
    /\ ~res.sent
    /\ res' = IF req.sessionId = <<>>
              THEN HttpResponse(400, JStr("missing_session_id"))
              ELSE IF getSession(sessions, session_history, req.sessionId) = JNull
                   THEN HttpResponse(404, JStr("session_not_found"))
                   ELSE HttpResponse(200, getSession(sessions, session_history, req.sessionId))
    /\ lastApi' = ApiOp("debugSession", req.sessionId, NoTurn, JUndefined, FALSE)
    /\ UNCHANGED <<storeVars, req, loop>>
    /\ UNCHANGED flightVars
    /\ UNCHANGED notApi

\* What a header or body field holds: nothing, blanks, or an id with blanks
\* around it.
IdValues(k) ==
    {JUndefined, JStr(<<" ">>),
     IF k % 2 = 1 THEN JStr(<<" ", "s1">>) ELSE JStr(<<"s2", " ">>)}

HeaderRank(h) ==
    IF h = PRIMARY_HEADER THEN 1
    ELSE 1 + CHOOSE i \in 1..Len(FALLBACK_HEADERS) : FALLBACK_HEADERS[i] = h

BodyRank(f) == CHOOSE i \in 1..Len(BodyIdFields) : BodyIdFields[i] = f

HeaderSets == {hs \in [HeaderNames -> {JUndefined, JStr(<<" ">>), JStr(<<" ", "s1">>), JStr(<<"s2", " ">>)}] :
                  \A h \in HeaderNames : hs[h] \in IdValues(HeaderRank(h))}

BodySets == {b \in [BodyIdNames -> {JUndefined, JStr(<<" ">>), JStr(<<" ", "s1">>), JStr(<<"s2", " ">>)}] :
                \A f \in BodyIdNames : b[f] \in IdValues(BodyRank(f))}

\* Requests arrive with any mix of the id headers and body fields.
SessionIdRequests ==
    {HttpRequest("GET /debug/session", hs, b, FALSE, 0) : hs \in HeaderSets, b \in BodySets}

SessionIdNext ==
    \/ \E arrived \in SessionIdRequests : SessionMiddleware(arrived)
    \/ DebugSession

\* /debug/session over a store that other requests have written to.
DebugRequests ==
    {HttpRequest("GET /debug/session",
                 [NoHeaders EXCEPT ![PRIMARY_HEADER] = h],
                 [NoBodyIds EXCEPT !["session_id"] = b], FALSE, 0) :
        h \in IdValues(1), b \in IdValues(2)}

DebugNext ==
    \/ \E id \in SessionIds : GetOrCreateSession(id)
    \/ \E turn \in Turns : AppendSessionTurn(<<"s1">>, turn, EmptyObject)
    \/ \E arrived \in DebugRequests : SessionMiddleware(arrived)
    \/ DebugSession

(***************************************************************************)
(* Agent loop: processMessage (the orchestrator), recording its turns      *)
(* through src/src/sessions/record.js, answered by router.post             *)
(***************************************************************************)

\* config.policy.maxStepsPerTurn is at most this in the model.
MaxSteps == 3

\* appendTurnToSession that pushes the turn and does not persist it.
appendTurnToSessionUnpersisted(session, db, entry, at) ==
    LET turn == [entry EXCEPT !.timestamp = JNum(at)]
    IN [session |-> [session EXCEPT
                        !.createdAt = IF @ = 0 THEN at ELSE @,
                        !.history = Append(@, turn),
                        !.updatedAt = at],
        db |-> db]

\* appendTurnToSession(session, entry): the session object and the tables
\* after the turn is pushed on session.history and persisted.
appendTurnToSession(session, db, entry, at) ==
    LET turn == [entry EXCEPT !.timestamp = JNum(at)]
    IN [session |-> [session EXCEPT
                        !.createdAt = IF @ = 0 THEN at ELSE @,
                        !.history = Append(@, turn),
                        !.updatedAt = at],
        db |-> IF session.id # <<>>
               THEN appendSessionTurn(db, session.id, turn,
                                      Coalesce(session.metadata, JObj(<<>>)), at)
               ELSE db]

AssistantMessage(text) ==
    JObj(<<Prop("role", JStr("assistant")), Prop("content", JStr(text))>>)

UserTurn == Turn(JStr("user"), JStr("message"), JUndefined, JStr("hi"), JUndefined, JUndefined)
AssistantTurn(message) ==
    Turn(JStr("assistant"), JStr("message"), JUndefined, message, JUndefined, JUndefined)
ToolTurn(status) ==
    Turn(JStr("tool"), JStr("tool_result"), JNum(status),
         JObj(<<Prop("name", JStr("x"))>>), JUndefined, JUndefined)

\* The tool calls an upstream reply carries.
ReadCall == Call("fs_read", "json", EmptyArgs)
PushCall == Call("workspace_git_push", "json", EmptyArgs)
ReplyCalls == {<<>>, <<ReadCall>>, <<PushCall>>, <<ReadCall, PushCall>>}

\* The loop allowed one step more than maxStepsPerTurn.
StepLimitReachedLate(l) == l.steps > l.maxSteps

\* The loop is over: the steps allowed have all been taken.
StepLimitReached(l) == l.steps >= l.maxSteps

\* The per-turn quota was hit by this decision.
QuotaHit(d) == ~d.allowed /\ d.code = "tool_limit_reached"

LoopAt(pc, maxSteps) ==
    [pc |-> pc, maxSteps |-> maxSteps, steps |-> 0, executed |-> 0,
     pending |-> <<>>, quotaHit |-> FALSE, oneCallEach |-> TRUE, log |-> <<>>,
     base |-> 0, status |-> 0, body |-> JUndefined, reason |-> JUndefined]

\* The session and tables after the turns of entries are recorded in order.
RECURSIVE RecordAll(_, _, _, _)
RecordAll(session, db, entries, at) ==
    IF entries = <<>>
    THEN [session |-> session, db |-> db]
    ELSE LET next == appendTurnToSession(session, db, Head(entries), at)
         IN RecordAll(next.session, next.db, Tail(entries), at)

\* The step of processMessage that records entries and moves the loop on.
Record(entries, nextLoop, op) ==
    LET recorded == RecordAll(req.session,
                              Db(sessions, session_history, historySeq),
                              entries, clock)
    IN /\ req' = [req EXCEPT !.session = recorded.session]
       /\ sessions' = recorded.db.sessions
       /\ session_history' = recorded.db.session_history
       /\ historySeq' = recorded.db.historySeq
       /\ loop' = nextLoop
       /\ lastApi' = ApiOp(op, req.sessionId, NoTurn, JUndefined, FALSE)
       /\ UNCHANGED <<clock, res>>
       /\ UNCHANGED flightVars
       /\ UNCHANGED notApi

ReturnWith(l, status, body, reason) ==
    [l EXCEPT !.pc = "returned", !.status = status, !.body = body, !.reason = reason]

\* processMessage is entered: the user's turns are recorded.
ProcessMessageStart(maxSteps) ==
    /\ req.route = "POST /v1/messages"
    /\ loop = NoLoop
    /\ Record([i \in 1..req.messages |-> UserTurn],
              [LoopAt("step", maxSteps) EXCEPT
                  !.base = Len(req.session.history),
                  !.log = [i \in 1..req.messages |-> "user"]],
              "processMessage")

\* The steps are used up: a synthesized assistant message, step_limit.
StepLimit ==
    /\ loop.pc = "step"
    /\ StepLimitReached(loop)
    /\ Record(<<AssistantTurn(AssistantMessage("step_limit"))>>,
              ReturnWith([loop EXCEPT !.log = Append(@, "final")],
                       200, AssistantMessage("step_limit"), JStr("step_limit")),
              "stepLimit")

\* Cache probe finds a live entry: its value is returned, upstream not called.
CacheHit ==
    /\ loop.pc = "step"
    /\ ~StepLimitReached(loop)
    /\ Record(<<AssistantTurn(AssistantMessage("hi"))>>,
              ReturnWith([loop EXCEPT !.log = Append(@, "final")],
                       200, AssistantMessage("hi"), JStr("cache_hit")),
              "cacheHit")

\* Provider call answered non-2xx: status and body go back unchanged.
ProviderError(status) ==
    /\ loop.pc = "step"
    /\ ~StepLimitReached(loop)
    /\ Record(<<>>,
              ReturnWith([loop EXCEPT !.steps = @ + 1, !.oneCallEach = FALSE],
                       status, JObj(<<Prop("error", JStr("upstream"))>>),
                       JStr("provider_error")),
              "providerError")

\* Provider call answered 2xx with an assistant message and its tool calls:
\* the assistant turn is recorded; without tool calls the message is final.
ProviderReply(calls, reported) ==
    /\ loop.pc = "step"
    /\ ~StepLimitReached(loop)
    /\ LET l == [loop EXCEPT !.steps = @ + 1,
                             !.log = Append(@, "reply"),
                             !.oneCallEach = @ /\ Len(calls) = 1,
                             !.pending = calls]
       IN Record(<<AssistantTurn(AssistantMessage("hi"))>>,
                 IF calls = <<>>
                 THEN ReturnWith(l, 200, AssistantMessage("hi"),
                               IF reported THEN JStr("completion") ELSE JUndefined)
                 ELSE [l EXCEPT !.pc = "dispatch"],
                 "providerReply")

\* Tool dispatch of the next call of the reply: the policy engine is
\* consulted; a denial becomes the tool result, else the tool is executed
\* and counted.  The tool turn is recorded either way.
Dispatch(exitOk) ==
    /\ loop.pc = "dispatch"
    /\ LET call == Head(loop.pending)
           verdict == evaluateToolCall(call, loop.executed)
           status == IF verdict.allowed
                     THEN executeToolCall(call, exitOk).status
                     ELSE verdict.status
           hit == loop.quotaHit \/ QuotaHit(verdict)
       IN Record(<<ToolTurn(status)>>,
                 [loop EXCEPT
                     !.pending = Tail(@),
                     !.executed = IF verdict.allowed THEN @ + 1 ELSE @,
                     !.quotaHit = hit,
                     !.log = Append(@, "call"),
                     !.pc = IF Tail(loop.pending) # <<>> THEN "dispatch"
                            ELSE IF hit THEN "quota" ELSE "step"],
                 "dispatch")

\* The quota was hit in the iteration: a synthesized assistant message,
\* tool_limit_reached.
ToolLimitReached ==
    /\ loop.pc = "quota"
    /\ Record(<<AssistantTurn(AssistantMessage("tool_limit_reached"))>>,
              ReturnWith([loop EXCEPT !.log = Append(@, "final")],
                       200, AssistantMessage("tool_limit_reached"),
                       JStr("tool_limit_reached")),
              "toolLimit")

\* The event stream with the termination reason written as it was returned.
SseEventsNoDefault(body, reason) ==
    <<[event |-> "message",
       data |-> JsonStringify(JObj(<<Prop("type", JStr("message")),
                                     Prop("message", body)>>))],
      [event |-> "end",
       data |-> JsonStringify(JObj(<<Prop("termination", reason)>>))]>>

\* The two events of the event stream router.post writes.
SseEvents(body, reason) ==
    <<[event |-> "message",
       data |-> JsonStringify(JObj(<<Prop("type", JStr("message")),
                                     Prop("message", body)>>))],
      [event |-> "end",
       data |-> JsonStringify(JObj(<<Prop("termination",
                                          Coalesce(reason, JStr("completion")))>>))]>>

\* The status line of the answer router.post sends.
SentStatus(stream, status) == IF stream THEN 200 ELSE status

\* router.post("/v1/messages") once processMessage has returned.
Respond ==
    /\ loop.pc = "returned"
    /\ ~res.sent
    /\ res' = IF req.stream
              THEN [sent |-> TRUE, status |-> SentStatus(TRUE, loop.status),
                    body |-> JUndefined,
                    events |-> SseEvents(loop.body, loop.reason), ended |-> TRUE]
              ELSE [sent |-> TRUE, status |-> SentStatus(FALSE, loop.status),
                    body |-> loop.body, events |-> <<>>, ended |-> TRUE]
    /\ lastApi' = ApiOp("respond", req.sessionId, NoTurn, JUndefined, FALSE)
    /\ UNCHANGED <<storeVars, req, loop>>
    /\ UNCHANGED flightVars
    /\ UNCHANGED notApi

\* The values of maxStepsPerTurn the history is followed under.
HistorySteps == {0, 1, 2}

\* POST /v1/messages on session s1, streamed or not, with its messages.
MessagesRequest(stream, messages) ==
    HttpRequest("POST /v1/messages",
                [NoHeaders EXCEPT ![PRIMARY_HEADER] = JStr(<<"s1">>)],
                NoBodyIds, stream, messages)

HistoryRequests == {MessagesRequest(FALSE, messages) : messages \in 1..2}
RouterRequests == {MessagesRequest(stream, 1) : stream \in BOOLEAN}
StepsRequest == MessagesRequest(FALSE, 1)

\* One POST /v1/messages, from its arrival to the return of processMessage,
\* on a session that earlier requests may have written to; time passes
\* between requests and while the loop awaits the provider or a tool.
HistoryNext ==
    \/ \E arrived \in HistoryRequests : SessionMiddleware(arrived)
    \/ /\ req = NoReq
       /\ GetOrCreateSession(<<"s1">>)
    \/ /\ req = NoReq
       /\ AppendSessionTurn(<<"s1">>, UserTurn, JObj(<<>>))
    \/ /\ req = NoReq
       /\ ClockTick
    \/ \E maxSteps \in HistorySteps : ProcessMessageStart(maxSteps)
    \/ StepLimit
    \/ CacheHit
    \/ \E status \in {429, 500} : ProviderError(status)
    \/ \E calls \in ReplyCalls : ProviderReply(calls, TRUE)
    \/ \E exitOk \in BOOLEAN : Dispatch(exitOk)
    \/ ToolLimitReached
    \/ /\ loop.pc \in {"step", "dispatch"}
       /\ ClockTick

\* One POST /v1/messages, from its arrival to its answer.
RouterNext ==
    \/ \E arrived \in RouterRequests : SessionMiddleware(arrived)
    \/ \E maxSteps \in 0..MaxSteps : ProcessMessageStart(maxSteps)
    \/ StepLimit
    \/ CacheHit
    \/ \E status \in {429, 500} : ProviderError(status)
    \/ \E calls \in ReplyCalls, reported \in BOOLEAN : ProviderReply(calls, reported)
    \/ \E exitOk \in BOOLEAN : Dispatch(exitOk)
    \/ ToolLimitReached
    \/ Respond

\* processMessage on one request, from its entry to its return.
StepsNext ==
    \/ SessionMiddleware(StepsRequest)
    \/ \E maxSteps \in 0..MaxSteps : ProcessMessageStart(maxSteps)
    \/ StepLimit
    \/ CacheHit
    \/ \E status \in {429, 500} : ProviderError(status)
    \/ \E calls \in ReplyCalls : ProviderReply(calls, TRUE)
    \/ \E exitOk \in BOOLEAN : Dispatch(exitOk)
    \/ ToolLimitReached

(***************************************************************************)
(* Requests in flight on the session store: getOrCreateSession of          *)
(* src/unnamed/part_009 and appendTurnToSession of                         *)
(* src/src/sessions/record.js, each request with its own session object.   *)
(*                                                                         *)
(* A statement of the store is one step; between the read and the insert   *)
(* of getOrCreateSession another writer of the database file may run.      *)
(***************************************************************************)

MaxAppends == 2

\* The session object createSession returns.
NewSession(sessionId, at) ==
    [t |-> "session", id |-> sessionId, createdAt |-> at, updatedAt |-> at,
     metadata |-> JObj(<<>>), history |-> <<>>]

Flight(pc, sessionId, session, appended) ==
    [pc |-> pc, id |-> sessionId, session |-> session, appended |-> appended]

\* The n-th turn request r appends: r's own text, the role by position.
FlightEntry(r, n) ==
    Turn(JStr(IF n = 1 THEN "user" ELSE "assistant"), JStr("message"), JUndefined,
         JStr(IF r = "A" THEN "hi" ELSE "x"), JUndefined, JUndefined)

\* getOrCreateSession to its read: an existing session is returned.
FlightRead(r, sessionId) ==
    /\ inflight[r].pc = "idle"
    /\ LET existing == getSession(sessions, session_history, sessionId)
       IN IF existing # JNull
          THEN /\ inflight' = [inflight EXCEPT ![r] = Flight("has", sessionId, existing, 0)]
               /\ lastApi' = ApiOp("getOrCreateSession", sessionId, NoTurn, existing, FALSE)
          ELSE /\ inflight' = [inflight EXCEPT ![r] = Flight("creating", sessionId, JNull, 0)]
               /\ lastApi' = ApiOp("getOrCreateSession.read", sessionId, NoTurn, JNull, FALSE)
    /\ UNCHANGED <<storeVars, req, res, loop>>
    /\ UNCHANGED notApi

\* The insert without the primary key: a second row under the same id.
FlightInsertTwice(r) ==
    /\ inflight[r].pc = "creating"
    /\ LET sessionId == inflight[r].id
           created == NewSession(sessionId, clock)
       IN /\ sessions' = [createSession(sessions, sessionId, clock)
                             EXCEPT ![sessionId].copies = sessions[sessionId].copies + 1]
          /\ inflight' = [inflight EXCEPT ![r] = Flight("has", sessionId, created, 0)]
          /\ lastApi' = ApiOp("getOrCreateSession", sessionId, NoTurn, created, FALSE)
    /\ UNCHANGED <<session_history, historySeq, clock, req, res, loop>>
    /\ UNCHANGED notApi

\* getOrCreateSession from its insert on: createSession, or, when the
\* insert fails on the primary key, the session another writer made.
FlightInsert(r) ==
    /\ inflight[r].pc = "creating"
    /\ LET sessionId == inflight[r].id
           created == NewSession(sessionId, clock)
           found == getSession(sessions, session_history, sessionId)
       IN IF sessions[sessionId].present
          THEN /\ sessions' = sessions
               /\ inflight' = [inflight EXCEPT ![r] = Flight("has", sessionId, found, 0)]
               /\ lastApi' = ApiOp("getOrCreateSession", sessionId, NoTurn, found, FALSE)
          ELSE /\ sessions' = createSession(sessions, sessionId, clock)
               /\ inflight' = [inflight EXCEPT ![r] = Flight("has", sessionId, created, 0)]
               /\ lastApi' = ApiOp("getOrCreateSession", sessionId, NoTurn, created, FALSE)
    /\ UNCHANGED <<session_history, historySeq, clock, req, res, loop>>
    /\ UNCHANGED notApi

\* appendTurnToSession(session, entry) by request r on its session object.
\* Without a row for the session the insert throws, after the push.
FlightAppend(r) ==
    /\ inflight[r].pc = "has"
    /\ inflight[r].appended < MaxAppends
    /\ LET f == inflight[r]
           entry == FlightEntry(r, f.appended + 1)
           next == appendTurnToSession(f.session,
                                       Db(sessions, session_history, historySeq),
                                       entry, clock)
       IN /\ inflight' = [inflight EXCEPT
                             ![r] = Flight("has", f.id, next.session, f.appended + 1)]
          /\ IF sessions[f.id].present
             THEN /\ sessions' = next.db.sessions
                  /\ session_history' = next.db.session_history
                  /\ historySeq' = next.db.historySeq
                  /\ lastApi' = ApiOp("appendTurnToSession", f.id, entry, JUndefined, FALSE)
             ELSE /\ lastApi' = ApiOp("appendTurnToSession", f.id, entry, JUndefined, TRUE)
                  /\ UNCHANGED <<sessions, session_history, historySeq>>
    /\ UNCHANGED <<clock, req, res, loop>>
    /\ UNCHANGED notApi

\* Two requests on session s1, with upsertSession as one more writer, which
\* gives the session a name whenever it has none.
FlightsNext ==
    \/ \E r \in Flights : FlightRead(r, <<"s1">>)
    \/ \E r \in Flights : FlightInsert(r)
    \/ \E r \in Flights : FlightAppend(r)
    \/ /\ sessions[<<"s1">>].metadata # serialize(JObj(<<Prop("name", JStr("hi"))>>))
       /\ UpsertSession(<<"s1">>,
                        SessionData(JObj(<<Prop("name", JStr("hi"))>>), JUndefined, JUndefined))
    \/ ClockTick

(***************************************************************************)
(* Sandbox permissions: src/unnamed/part_007                               *)
(*                                                                         *)
(* A command or a pattern is a text of characters; "L" and "S" are the     *)
(* upper-case letters of "l" and "s", " " is the white space.              *)
(***************************************************************************)

LowerChar(c) == CASE c = "L" -> "l" [] c = "S" -> "s" [] OTHER -> c

\* normaliseValue(value) of a string: value.trim().toLowerCase().
normaliseValue(value) ==
    LET trimmed == Trim(value) IN [i \in 1..Len(trimmed) |-> LowerChar(trimmed[i])]

startsWith(target, prefix) ==
    /\ Len(prefix) <= Len(target)
    /\ SubSeq(target, 1, Len(prefix)) = prefix

\* matchesPattern with equality only: the trailing "*" is no wildcard.
matchesPatternLiteral(pattern, target) ==
    IF pattern = <<>> THEN FALSE ELSE pattern = target

\* matchesPattern(pattern, target).
matchesPattern(pattern, target) ==
    IF pattern = <<>> THEN FALSE
    ELSE IF pattern = <<"*">> THEN TRUE
    ELSE IF pattern[Len(pattern)] = "*"
         THEN startsWith(target, SubSeq(pattern, 1, Len(pattern) - 1))
         ELSE pattern = target

\* Array.prototype.some over a list of patterns.
SomeMatches(list, target) ==
    \E i \in 1..Len(list) : matchesPattern(list[i], target)

\* evaluateSandboxRequest({sessionId, command}) under config.mcp.permissions.
evaluateSandboxRequest(permissions, command) ==
    LET allowList == [i \in 1..Len(permissions.allow) |->
                          normaliseValue(permissions.allow[i])]
        denyList == [i \in 1..Len(permissions.deny) |->
                         normaliseValue(permissions.deny[i])]
        target == normaliseValue(command)
    IN IF SomeMatches(denyList, target)
       THEN [allowed |-> FALSE, source |-> "deny_list"]
       ELSE IF permissions.mode = "deny"
       THEN [allowed |-> FALSE, source |-> "mode_deny"]
       ELSE IF permissions.mode = "require"
       THEN IF allowList = <<>>
            THEN [allowed |-> FALSE, source |-> "mode_require"]
            ELSE IF ~SomeMatches(allowList, target)
            THEN [allowed |-> FALSE, source |-> "mode_require"]
            ELSE [allowed |-> TRUE, source |-> "allow_list"]
       ELSE [allowed |-> TRUE,
             source |-> IF permissions.mode = "auto" THEN "auto" ELSE "implicit_allow"]

\* config.mcp.permissions: the mode is one of three, the lists come from
\* parseList, which trims its items and drops the empty ones.
PermissionModes == {"auto", "require", "deny"}
Patterns ==
    {<<"*">>, <<"l", "s">>, <<"l", "*">>, <<"L", "s">>, <<"s">>, <<"l", "*", "*">>}
PatternLists ==
    {<<>>} \cup {<<p>> : p \in Patterns}
    \cup {<<p, q>> : p \in {<<"l", "*">>, <<"s">>}, q \in {<<"l", "s">>, <<"*">>}}
Permissions(mode, allow, deny) == [mode |-> mode, allow |-> allow, deny |-> deny]
Commands ==
    {<<"l", "s">>, <<"L", "S">>, <<" ", "l", "s">>, <<"s">>, <<"l">>, <<"l", "*", "s">>}

NoSbxCall == [pc |-> "off"]
SandboxOff == sbxCall = NoSbxCall

SandboxInit ==
    sbxCall \in [pc : {"asked"}, permissions : {Permissions(m, a, d) :
                     m \in PermissionModes, a \in PatternLists, d \in PatternLists},
                 command : Commands]

\* runSandboxProcess asks for the permission of its command.
EvaluateSandboxRequest ==
    /\ sbxCall.pc = "asked"
    /\ sbxCall' = [pc |-> "decided",
                   permissions |-> sbxCall.permissions,
                   command |-> sbxCall.command,
                   permission |-> evaluateSandboxRequest(sbxCall.permissions,
                                                         sbxCall.command)]
    /\ UNCHANGED notSandbox

SandboxNext == EvaluateSandboxRequest

(***************************************************************************)
(* Subprocess runner: src/src/tools/process.js, src/src/mcp/sandbox.js     *)
(*                                                                         *)
(* The child is the environment: it writes chunks to its two streams,      *)
(* fails to start, or closes.  An environment is a set of name/value       *)
(* pairs, at most one per name.  emitted counts what the child wrote.      *)
(***************************************************************************)

MaxBuffer == 2
MaxOutput == 3

EnvVar(name, value) == [name |-> name, value |-> value]
NamesOf(env) == {e.name : e \in env}

\* sanitiseEnv(env): the entries with a value, as strings.
sanitiseEnv(env) == {e \in env : e.value \notin {"null", "undefined"}}

\* {...a, ...b}: b's entries over a's.
Spread(a, b) == {e \in a : e.name \notin NamesOf(b)} \cup b

normaliseSandboxPreference(value) ==
    IF value \in {"always", "never", "auto"} THEN value ELSE "never"

\* sandbox.js normaliseSessionId: "shared" for a missing id.
sandboxSessionId(sessionId) == IF sessionId = "" THEN "shared" ELSE sessionId

\* String.prototype.toUpperCase on the variable names of the model.
toUpperCase(name) == IF name = "path" THEN "PATH" ELSE name

\* buildRuntimeArgs: the -e arguments, the session marker last.
envArgs(session, env, passthroughEnv) ==
    LET passthrough == {toUpperCase(name) : name \in passthroughEnv}
    IN {e \in env : /\ ~(passthrough # {} /\ toUpperCase(e.name) \notin passthrough)
                    /\ e.value \notin {"null", "undefined"}}
       \cup {EnvVar("MCP_SANDBOX_SESSION", session)}

\* appendBuffer that reports no overflow for a buffer already full.
appendBufferSilent(current, chunk, maxBuffer) ==
    IF Len(current) >= maxBuffer
    THEN [value |-> current, overflow |-> FALSE]
    ELSE LET next == current \o chunk
         IN IF Len(next) > maxBuffer
            THEN [value |-> SubSeq(next, 1, maxBuffer), overflow |-> TRUE]
            ELSE [value |-> next, overflow |-> FALSE]

\* appendBuffer(current, chunk) of runProcess, and of sandbox.js.
appendBuffer(current, chunk, maxBuffer) ==
    IF Len(current) >= maxBuffer
    THEN [value |-> current, overflow |-> TRUE]
    ELSE LET next == current \o chunk
         IN IF Len(next) > maxBuffer
            THEN [value |-> SubSeq(next, 1, maxBuffer), overflow |-> TRUE]
            ELSE [value |-> next, overflow |-> FALSE]

ReadyProc == [pc |-> "ready"]

\* The value the close handler resolves the promise with.
Unsettled == [t |-> "none"]
ResultOf(p) ==
    [t |-> "result", stdout |-> p.stdout, stderr |-> p.stderr,
     stdoutOverflow |-> p.stdoutOverflow, stderrOverflow |-> p.stderrOverflow,
     timedOut |-> p.timedOut]

\* The state the Promise executor leaves: child spawned, timer armed.
Spawned(sandboxed, session, passthroughEnv, args) ==
    [pc |-> "running", sandboxed |-> sandboxed, session |-> session,
     passthroughEnv |-> passthroughEnv, envArgs |-> args,
     stdout |-> <<>>, stderr |-> <<>>,
     stdoutOverflow |-> FALSE, stderrOverflow |-> FALSE,
     emitted |-> [stdout |-> 0, stderr |-> 0],
     timer |-> "armed", timedOut |-> FALSE, kills |-> 0,
     child |-> "running", promise |-> "pending", result |-> Unsettled,
     runCount |-> 0, last |-> "spawn"]

ThrewProc(code) == [pc |-> "threw", code |-> code]

\* runProcess up to the spawn, through runSandboxProcess when the sandbox
\* is chosen.
SpawnProcess(sandbox, sandboxEnabled, sessionId, env, passthroughEnv, permissions, processEnv) ==
    /\ proc = ReadyProc
    /\ LET mergedEnv == Spread(processEnv, sanitiseEnv(env))
           sandboxPreference == normaliseSandboxPreference(sandbox)
           shouldUseSandbox ==
               \/ sandboxPreference = "always"
               \/ sandboxPreference = "auto" /\ sandboxEnabled
           session == sandboxSessionId(sessionId)
       IN proc' =
            IF sandboxPreference = "always" /\ ~sandboxEnabled
            THEN ThrewProc("sandbox_not_enabled")
            ELSE IF shouldUseSandbox
            THEN IF ~evaluateSandboxRequest(permissions, <<"l", "s">>).allowed
                 THEN ThrewProc("SANDBOX_PERMISSION_DENIED")
                 ELSE Spawned(TRUE, session, passthroughEnv,
                              envArgs(session, mergedEnv, passthroughEnv))
            ELSE Spawned(FALSE, session, passthroughEnv, mergedEnv)
    /\ UNCHANGED notProc

\* child.stdout.on("data") and child.stderr.on("data").
Data(stream, chunk) ==
    /\ proc.pc = "running"
    /\ proc.child \in {"running", "killed"}
    /\ proc.emitted[stream] + Len(chunk) <= MaxOutput
    /\ LET appended == appendBuffer(proc[stream], chunk, MaxBuffer)
       IN proc' =
            IF stream = "stdout"
            THEN [proc EXCEPT !.stdout = appended.value,
                              !.stdoutOverflow = IF appended.overflow THEN TRUE ELSE @,
                              !.emitted.stdout = @ + Len(chunk),
                              !.last = "stdout"]
            ELSE [proc EXCEPT !.stderr = appended.value,
                              !.stderrOverflow = IF appended.overflow THEN TRUE ELSE @,
                              !.emitted.stderr = @ + Len(chunk),
                              !.last = "stderr"]
    /\ UNCHANGED notProc

\* The setTimeout callback: it runs unless clearTimeout came first.
TimerFires ==
    /\ proc.pc = "running"
    /\ proc.timer = "armed"
    /\ proc' = [proc EXCEPT !.timer = "fired",
                            !.timedOut = TRUE,
                            !.kills = @ + 1,
                            !.child = IF @ = "running" THEN "killed" ELSE @,
                            !.last = "timer"]
    /\ UNCHANGED notProc

\* child.on("close") without its clearTimeout.
ChildCloseTimerKept ==
    /\ proc.pc = "running"
    /\ proc.child \in {"running", "killed", "failed"}
    /\ proc' = [proc EXCEPT
                   !.child = "closed",
                   !.promise = IF @ = "pending" THEN "resolved" ELSE @,
                   !.result = IF proc.promise = "pending" THEN ResultOf(proc) ELSE @,
                   !.runCount = IF proc.sandboxed THEN @ + 1 ELSE @,
                   !.last = "close"]
    /\ UNCHANGED notProc

\* child.on("close"): the timer is cleared and the promise resolved with
\* what was captured.
ChildClose ==
    /\ proc.pc = "running"
    /\ proc.child \in {"running", "killed", "failed"}
    /\ proc' = [proc EXCEPT
                   !.timer = IF @ = "armed" THEN "cleared" ELSE @,
                   !.child = "closed",
                   !.promise = IF @ = "pending" THEN "resolved" ELSE @,
                   !.result = IF proc.promise = "pending" THEN ResultOf(proc) ELSE @,
                   !.runCount = IF proc.sandboxed THEN @ + 1 ELSE @,
                   !.last = "close"]
    /\ UNCHANGED notProc

\* child.on("error") for a child that could not be spawned: the timer is
\* cleared and the promise rejected.
ChildError ==
    /\ proc.pc = "running"
    /\ proc.child = "running"
    /\ proc.last = "spawn"
    /\ proc' = [proc EXCEPT
                   !.timer = IF @ = "armed" THEN "cleared" ELSE @,
                   !.child = "failed",
                   !.promise = IF @ = "pending" THEN "rejected" ELSE @,
                   !.last = "error"]
    /\ UNCHANGED notProc

Chunks == {<<"a">>, <<"a", "b">>}
ProcessEnv == {EnvVar("PATH", "/bin"), EnvVar("API_KEY", "secret")}
CallEnvs == {{}, {EnvVar("path", "x")}, {EnvVar("PATH", "null")}}
Whitelists == {{}, {"PATH"}, {"path", "HOME"}}
ProcPermissions == {Permissions(mode, <<>>, <<>>) : mode \in {"auto", "deny"}}

ProcInit == proc = ReadyProc

ProcNext ==
    \/ \E sandbox \in {"always", "never", "auto", "sometimes"}, sandboxEnabled \in BOOLEAN,
          sessionId \in {"", "s1"}, env \in CallEnvs, passthroughEnv \in Whitelists,
          permissions \in ProcPermissions :
            SpawnProcess(sandbox, sandboxEnabled, sessionId, env, passthroughEnv,
                       permissions, ProcessEnv)
    \/ \E stream \in {"stdout", "stderr"}, chunk \in Chunks : Data(stream, chunk)
    \/ TimerFires
    \/ ChildClose
    \/ ChildError

\* The timer runs out unless it is cleared; a killed child closes.
ProcFairness ==
    /\ WF_vars(TimerFires)
    /\ WF_vars(ChildClose /\ proc.child \in {"killed", "failed"})

(***************************************************************************)
(* workspace_git_commit: src/src/tools/git.js                              *)
(*                                                                         *)
(* A step is what runs between two awaits; the commands run are the        *)
(* environment's: each exits with some code.  ran lists them in order.     *)
(***************************************************************************)

\* config.policy.git.testCommand?.trim(): undefined without a command.
TrimmedTestCommand(testCommand) ==
    IF testCommand.t = "string" THEN JStr(Trim(testCommand.s)) ELSE JUndefined

\* Truthiness of a text or undefined.
HasText(value) == value.t = "string" /\ value.s # <<>>

\* runPreCommitChecks up to its await: what it returns at once, or that the
\* test command is to be run.
runPreCommitChecks(gitPolicy, skipTests) ==
    IF ~HasText(TrimmedTestCommand(gitPolicy.testCommand))
    THEN [run |-> FALSE, tests |-> [ran |-> FALSE, skipped |-> FALSE]]
    ELSE IF skipTests /\ ~gitPolicy.requireTests
    THEN [run |-> FALSE, tests |-> [ran |-> FALSE, skipped |-> TRUE]]
    ELSE [run |-> TRUE, tests |-> [ran |-> FALSE, skipped |-> FALSE]]

\* The argument value true.
JsTrue == [t |-> "boolean", b |-> TRUE]

GitPolicy(requireTests, testCommand) ==
    [requireTests |-> requireTests, testCommand |-> testCommand]

GitArgs(message, skip_tests, skipTests) ==
    [message |-> message, skip_tests |-> skip_tests, skipTests |-> skipTests]

GitInit ==
    gitCall \in [pc : {"called"},
                 policy : {GitPolicy(r, c) :
                              r \in BOOLEAN,
                              c \in {JNull, JStr(<<" ">>), JStr(<<"t">>)}},
                 args : {GitArgs(m, a, b) :
                            m \in {JUndefined, JStr(<<" ">>), JStr(<<"m">>)},
                            a \in {JUndefined, JStr(<<"t">>), JsTrue},
                            b \in {JUndefined, JsTrue}},
                 ran : {<<>>},
                 testExit : {-1},
                 commitExit : {-1},
                 tests : {[ran |-> FALSE, skipped |-> FALSE]}]

\* The handler to its first await: the message is checked, then the
\* pre-commit checks either return at once or start the test command.
WorkspaceGitCommit ==
    /\ gitCall.pc = "called"
    /\ LET message == gitCall.args.message
           checks == runPreCommitChecks(gitCall.policy,
                                        \/ gitCall.args.skip_tests = JsTrue
                                        \/ gitCall.args.skipTests = JsTrue)
       IN gitCall' =
            IF message.t # "string" \/ Trim(message.s) = <<>>
            THEN [gitCall EXCEPT !.pc = "threw"]
            ELSE IF checks.run
            THEN [gitCall EXCEPT !.pc = "testing", !.ran = Append(@, "test")]
            ELSE [gitCall EXCEPT !.pc = "committing", !.tests = checks.tests,
                                 !.ran = Append(@, "commit")]
    /\ UNCHANGED notGit

\* The test command's run ends: a non-zero exit code throws, zero lets the
\* handler go on to git commit.
TestCommandExits(exitCode) ==
    /\ gitCall.pc = "testing"
    /\ gitCall' =
         IF exitCode # 0
         THEN [gitCall EXCEPT !.pc = "threw", !.testExit = exitCode]
         ELSE [gitCall EXCEPT !.pc = "committing", !.testExit = exitCode,
                              !.tests = [ran |-> TRUE, skipped |-> FALSE],
                              !.ran = Append(@, "commit")]
    /\ UNCHANGED notGit

\* git commit ends: a non-zero exit code throws, zero is answered with 200.
GitCommitExits(exitCode) ==
    /\ gitCall.pc = "committing"
    /\ gitCall' = [gitCall EXCEPT !.pc = IF exitCode # 0 THEN "threw" ELSE "returned",
                                  !.commitExit = exitCode]
    /\ UNCHANGED notGit

\* Exit codes: success and two failures (-1 before a command has ended).
ExitCodes == {0, 1, 2}

GitNext ==
    \/ WorkspaceGitCommit
    \/ \E exitCode \in ExitCodes : TestCommandExits(exitCode)
    \/ \E exitCode \in ExitCodes : GitCommitExits(exitCode)

NoProc == [pc |-> "off"]
NoGitCall == [pc |-> "off"]
ProcOff == proc = NoProc
GitOff == gitCall = NoGitCall
ToolsOff == ProcOff /\ SandboxOff /\ GitOff

(***************************************************************************)
(* Specifications: one per subsystem, the others left at rest.             *)
(***************************************************************************)

InitWorkspace == WsInit /\ PolicyOff /\ CacheOff /\ AliasOff /\ KeyOff /\ McpOff /\ ExecOff /\ ApiOff /\ ToolsOff

InitPolicy == WsOff /\ PolicyInit /\ CacheOff /\ AliasOff /\ KeyOff /\ McpOff /\ ExecOff /\ ApiOff /\ ToolsOff

InitCache == WsOff /\ PolicyOff /\ CacheInit /\ AliasOff /\ KeyOff /\ McpOff /\ ExecOff /\ ApiOff /\ ToolsOff

InitAlias == WsOff /\ PolicyOff /\ CacheInitWith(TRUE) /\ AliasInit /\ KeyOff /\ McpOff /\ ExecOff /\ ApiOff /\ ToolsOff

InitKey == WsOff /\ PolicyOff /\ CacheInit /\ AliasOff /\ KeyInit /\ McpOff /\ ExecOff /\ ApiOff /\ ToolsOff

SpecKey ==
    /\ InitKey
    /\ [][KeyNext]_vars

InitMcp == WsOff /\ PolicyOff /\ CacheOff /\ AliasOff /\ KeyOff /\ McpInit /\ ExecOff /\ ApiOff /\ ToolsOff

SpecMcp ==
    /\ InitMcp
    /\ [][McpNext]_vars

\* The client of one server, from its making to its close.
\* Server "a" as it is registered, with a command or without one, and the
\* one-entry manifest a reload finds.
ClientEntries == {ManifestEntry("a", Absent, command, Absent) : command \in BOOLEAN}
ReloadManifest == <<ManifestEntry("a", Absent, TRUE, Absent)>>

ClientNext ==
    \/ \E entry \in ClientEntries : RegisterServer(entry)
    \/ \E sid \in ServerIds, spawnOk \in BOOLEAN : EnsureClient(sid, spawnOk)
    \/ \E c \in 1..MaxClients, writeThrows \in BOOLEAN : Request(c, writeThrows)
    \/ \E c \in 1..MaxClients, id \in 0..(MaxRequests + 1), error \in BOOLEAN :
            Line(c, id, error)
    \/ \E ch \in 1..MaxClients : ChildEvent(ch)
    \/ \E c \in 1..MaxClients : Close(c)

SpecClient ==
    /\ InitMcp
    /\ [][ClientNext]_vars

\* One server whose child exits, with the registry reloaded now and then.
ReloadNext ==
    \/ \E entry \in ClientEntries : RegisterServer(entry)
    \/ \E spawnOk \in BOOLEAN : EnsureClient("a", spawnOk)
    \/ \E c \in 1..MaxClients, writeThrows \in BOOLEAN : Request(c, writeThrows)
    \/ \E ch \in 1..MaxClients : ChildEvent(ch)
    \/ ClearServers
    \/ \E spawnOk \in BOOLEAN : LoadConfiguredServers(ReloadManifest, spawnOk)

SpecReload ==
    /\ InitMcp
    /\ [][ReloadNext]_vars

InitExec == WsOff /\ PolicyOff /\ CacheOff /\ AliasOff /\ KeyOff /\ McpOff /\ ExecInit /\ ApiOff /\ ToolsOff

SpecExec ==
    /\ InitExec
    /\ [][ExecNext]_vars

\* Boot, refresh and remote tool registration, with the servers answering:
\* no step that can be taken is put off for ever.
RemoteNext ==
    \/ \E entries \in Manifests, spawnOk \in BOOLEAN :
            LoadConfiguredServers(entries, spawnOk)
    \/ RegisterRemoteTools
    \/ \E sid \in ServerIds : WorkspaceMcpCall(sid)
    \/ \E c \in 1..MaxClients, id \in 0..(MaxRequests + 1), error \in BOOLEAN :
            Line(c, id, error)
    \/ \E ch \in 1..MaxClients : ChildEvent(ch)

SpecRemote ==
    /\ InitMcp
    /\ [][RemoteNext]_vars
    /\ WF_vars(RemoteNext)

SpecAlias ==
    /\ InitAlias
    /\ [][AliasNext]_vars

SpecWorkspace ==
    /\ InitWorkspace
    /\ [][WsNext]_vars

SpecPolicy ==
    /\ InitPolicy
    /\ [][PolicyNext]_vars

InitResolve == WsOff /\ ResolveInit /\ CacheOff /\ AliasOff /\ KeyOff /\ McpOff /\ ExecOff /\ ApiOff /\ ToolsOff

\* Tools are registered, then one call is resolved and run.
SpecResolve ==
    /\ InitResolve
    /\ [][ResolveNext]_vars

InitStore == WsOff /\ PolicyOff /\ CacheOff /\ AliasOff /\ KeyOff /\ McpOff /\ ExecOff /\ StoreInit /\ ToolsOff

InitSandbox ==
    /\ WsOff /\ PolicyOff /\ CacheOff /\ AliasOff /\ KeyOff /\ McpOff /\ ExecOff /\ ApiOff
    /\ ProcOff /\ GitOff /\ SandboxInit

\* The sandbox permission check on every configuration and command.
SpecSandbox ==
    /\ InitSandbox
    /\ [][SandboxNext]_vars

InitProc ==
    /\ WsOff /\ PolicyOff /\ CacheOff /\ AliasOff /\ KeyOff /\ McpOff /\ ExecOff /\ ApiOff
    /\ SandboxOff /\ GitOff /\ ProcInit

\* One subprocess run, on the host or in the sandbox.
SpecProc ==
    /\ InitProc
    /\ [][ProcNext]_vars
    /\ ProcFairness

InitGit ==
    /\ WsOff /\ PolicyOff /\ CacheOff /\ AliasOff /\ KeyOff /\ McpOff /\ ExecOff /\ ApiOff
    /\ SandboxOff /\ ProcOff /\ GitInit

\* One workspace_git_commit call under every git policy.
SpecGit ==
    /\ InitGit
    /\ [][GitNext]_vars

\* The session store under two requests in flight.
SpecFlights ==
    /\ InitStore
    /\ [][FlightsNext]_vars

\* The session store under all of its writers.
SpecSessions ==
    /\ InitStore
    /\ [][SessionsNext]_vars

\* The session store under its callers.
SpecStore ==
    /\ InitStore
    /\ [][StoreNext]_vars

SpecSessionId ==
    /\ InitStore
    /\ [][SessionIdNext]_vars

SpecDebug ==
    /\ InitStore
    /\ [][DebugNext]_vars

SpecHistory ==
    /\ InitStore
    /\ [][HistoryNext]_vars

SpecRouter ==
    /\ InitStore
    /\ [][RouterNext]_vars

\* processMessage alone, its steps never put off for ever.
SpecSteps ==
    /\ InitStore
    /\ [][StepsNext]_vars
    /\ WF_vars(StepsNext)

SpecCache ==
    /\ InitCache
    /\ [][CacheNext]_vars

\* Admission alone: one storeResponse on the empty cache, with any response.
AdmissionNext ==
    \E key \in Keys \cup {NoKey}, response \in AllResponses \cup {NullResponse} :
        /\ lastOp = NoOp
        /\ StoreResponse(key, response)

SpecAdmission ==
    /\ InitCache
    /\ [][AdmissionNext]_vars


(***************************************************************************)
(* Claims                                                                  *)
(***************************************************************************)

\* C1: every path handed to resolveWorkspacePath (directly or as the cwd of
\* runProcess) either throws or resolves to the workspace root or a path
\* beneath it; a sibling whose name begins with the root's name is outside.
C1_PathConfinement ==
    wsCall.op # "none" =>
        (wsOutcome.threw \/ IsWithin(wsOutcome.path, workspaceRoot))

\* A name-keyed rule of the policy denies the tool: it is on the disallow
\* list, or it is git push, pull or commit with its allow flag off.
NameRuleDenies(tool) ==
    \/ tool \in policy.disallowedTools
    \/ (tool = "workspace_git_push" /\ policy.allowPush # TRUE)
    \/ (tool = "workspace_git_pull" /\ policy.allowPull # TRUE)
    \/ (tool = "workspace_git_commit" /\ policy.allowCommit # TRUE)

\* C2: whenever executeToolCall dispatches a call to a tool that a name-keyed
\* rule denies, evaluateToolCall has denied that call (status 403; 429 only
\* when the per-turn quota is exhausted and decides first).
C2_CanonicalNameDenied ==
    (execResult.ran /\ NameRuleDenies(execResult.name)) =>
        /\ ~decision.allowed
        /\ (toolCallsExecuted < maxToolCallsPerTurn => decision.status = 403)

\* The shell handler ran a command that matches the blocklist.
RanDestructive ==
    /\ execResult.ran
    /\ execResult.name = "shell"
    /\ execResult.run.spawned
    /\ matchesAny(SHELL_BLOCKLIST_PATTERNS, execResult.run.words)

\* C3: every call that the shell handler runs with a command matching the
\* blocklist is denied by evaluateToolCall, as 403 unsafe_shell_command
\* unless the disallow list or the quota denies it first.  Stated for calls
\* named shell itself, so that the alias resolution of C2 plays no part.
C3_ShellBlocklistCoversHandler ==
    (lastCall.name = "shell" /\ RanDestructive) =>
        /\ ~decision.allowed
        /\ (/\ "shell" \notin policy.disallowedTools
            /\ toolCallsExecuted < maxToolCallsPerTurn)
           => (decision.status = 403 /\ decision.code = "unsafe_shell_command")

\* C4: a disallowed tool is denied 403 tool_disallowed whatever the counter;
\* any other call with toolCallsExecuted >= maxToolCallsPerTurn is denied 429
\* tool_limit_reached whatever its git, shell or python rules would decide.
C4_DisallowThenQuota ==
    lastCall # NoCall =>
        /\ lastCall.name \in policy.disallowedTools
           => decision = Deny(403, "tool_disallowed")
        /\ (/\ lastCall.name \notin policy.disallowedTools
            /\ toolCallsExecuted >= maxToolCallsPerTurn)
           => decision = Deny(429, "tool_limit_reached")

C4_Witness ==
    /\ lastCall.name \in policy.disallowedTools
    /\ toolCallsExecuted >= maxToolCallsPerTurn
    /\ decision.code = "tool_disallowed"

WithoutName(cfg, n) == [cfg EXCEPT !.disallowedTools = @ \ {n}]
WithName(cfg, n) == [cfg EXCEPT !.disallowedTools = @ \cup {n}]

\* C5: removing a name from the disallow list never turns an allowed decision
\* into a denied one, and adding a name never turns a denied decision into an
\* allowed one, for the call and the counter at hand.
C5_PolicyMonotone ==
    lastCall # NoCall =>
        \A n \in ShellNames \cup OtherNames \cup {"python_exec"} :
            /\ decision.allowed =>
                   evaluateToolCallUnder(WithoutName(policy, n), lastCall,
                                         toolCallsExecuted).allowed
            /\ ~decision.allowed =>
                   ~evaluateToolCallUnder(WithName(policy, n), lastCall,
                                          toolCallsExecuted).allowed

\* The list decides: a denied call that is allowed once its name is removed.
C5_Witness ==
    /\ lastCall # NoCall
    /\ ~decision.allowed
    /\ evaluateToolCallUnder(WithoutName(policy, lastCall.name), lastCall,
                             toolCallsExecuted).allowed

\* The response's first choice carries a non-empty tool-call list.
HasToolCalls(r) == ~r.null /\ r.json /\ r.choice /\ r.tool_calls = "calls"

KeysOf(s) == [i \in 1..Len(s) |-> s[i].key]

\* This step is a cache operation of the named kinds (a repeated operation
\* that changes nothing is a stuttering step).
OpStep(kinds) == lastOp' # lastOp /\ lastOp'.op \in kinds

\* C6: storeResponse with a response carrying a non-empty tool-call list
\* leaves the cache as it was; no stored entry and no value returned by fetch
\* contains tool calls.
C6_NoToolUseCaching ==
    /\ [](\A i \in 1..Len(store) : ~HasToolCalls(store[i].value))
    /\ [](lastOp.op = "fetch" => ~HasToolCalls(lastOp.value))
    /\ [][(lastOp'.op = "store" /\ HasToolCalls(lastOp'.response))
              => (store' = store /\ recency' = recency)]_vars

C6_Witness ==
    /\ enabled
    /\ lastOp.op = "store"
    /\ lastOp.key # NoKey
    /\ HasToolCalls(lastOp.response)
    /\ lastOp.response.finish_reason = "stop"
    /\ Len(store) > 0

\* C7 as stated: with the cache enabled and a valid key, a response is
\* admitted iff ok == true, the status is 200 and the first choice's message
\* carries no tool-call list; nothing else decides.
C7_AdmissionAsStated ==
    (lastOp.op = "store" /\ enabled /\ lastOp.key # NoKey /\ ~lastOp.response.null) =>
        (lastOp.stored <=>
            /\ lastOp.response.ok = TRUE
            /\ lastOp.response.status = 200
            /\ lastOp.response.tool_calls # "calls")

\* C7 amended: admitted iff the response exists, ok == true, it has a JSON
\* body with a first choice, its status is 200 or is no number, the choice's
\* finish_reason is not tool_calls and its message carries no non-empty
\* tool-call array.
C7_AdmissionAmended ==
    (lastOp.op = "store" /\ enabled /\ lastOp.key # NoKey) =>
        (lastOp.stored <=>
            /\ ~lastOp.response.null
            /\ lastOp.response.ok = TRUE
            /\ lastOp.response.json
            /\ lastOp.response.choice
            /\ lastOp.response.status \in {200, NotANumber}
            /\ lastOp.response.finish_reason = "stop"
            /\ lastOp.response.tool_calls \in {"absent", "empty"})

C7_Witness ==
    /\ lastOp.op = "store"
    /\ lastOp.stored
    /\ lastOp.response.status = NotANumber
    /\ Len(store) = 1

\* The entries of the store, other than key's, that have not expired.
LiveOthers(key) ==
    SelectSeq(store, LAMBDA e : e.expiresAt > now /\ e.key # key)

Position(seq, k) == CHOOSE i \in 1..Len(seq) : seq[i] = k

Min(a, b) == IF a <= b THEN a ELSE b

\* C8: the cache never holds more than maxEntries entries; a store that finds
\* maxEntries other live entries leaves exactly maxEntries, the one evicted
\* being the least recently used, and the entry just stored is kept.
C8_SizeCap ==
    /\ [](Len(store) <= maxEntries)
    /\ [][(OpStep({"store"}) /\ lastOp'.stored) =>
            LET others == LiveOthers(lastOp'.key)
            IN /\ Len(store') = Min(Len(others) + 1, maxEntries)
               /\ store'[Len(store')].key = lastOp'.key
               /\ Len(others) = maxEntries =>
                    /\ KeysOf(store') = Append(KeysOf(Tail(others)), lastOp'.key)
                    /\ \A i \in 2..Len(others) :
                          Position(recency, others[1].key)
                              < Position(recency, others[i].key)]_vars

\* maxEntries + 1 distinct keys written at one instant: one was evicted.
C8_Witness ==
    /\ now = 0
    /\ lastOp.op = "store"
    /\ lastOp.stored
    /\ Len(store) = maxEntries
    /\ Len(recency) = maxEntries + 1

\* C9: the store's order is the order of last use (store or hit), the latest
\* last: a hit or a store puts its key last, a miss keeps the remaining
\* entries in their order, and an entry that leaves the store before its
\* expiry is the live entry used longest ago.
C9_RecencyOrder ==
    /\ [](KeysOf(store) = SelectSeq(recency, LAMBDA k : Has(store, k)))
    /\ []((lastOp.hit \/ lastOp.stored) =>
             (Len(store) > 0 /\ store[Len(store)].key = lastOp.key))
    /\ [][(OpStep({"lookup", "fetch"}) /\ ~lastOp'.hit) =>
             /\ store' = SelectSeq(store, LAMBDA e : Has(store', e.key))
             /\ recency' = recency]_vars
    /\ [][\A i \in 1..Len(store) :
             (store[i].expiresAt > now /\ ~Has(store', store[i].key)) =>
                 \A j \in 1..Len(store) :
                     (j # i /\ store[j].expiresAt > now) =>
                         Position(recency, store[i].key)
                             < Position(recency, store[j].key)]_vars

\* A hit moved the entry created first behind the one created later.
C9_Witness ==
    /\ lastOp.op \in {"lookup", "fetch"}
    /\ lastOp.hit
    /\ Len(store) = 2
    /\ store[2].key = lastOp.key
    /\ store[2].createdAt < store[1].createdAt

\* C10: an entry stored at t expires at t + ttlMs and nothing moves that
\* instant; while it is in the store a lookup before t + ttlMs hits and leaves
\* its expiry as it was, a lookup after t + ttlMs misses; an entry leaves the
\* store before its expiry only by eviction at a store or by being stored
\* again; after a lookup with a valid key no expired entry remains.
C10_TimeToLive ==
    /\ [](\A i \in 1..Len(store) :
             /\ store[i].expiresAt = store[i].createdAt + ttlMs
             /\ store[i].createdAt <= now)
    /\ [][(OpStep({"lookup", "fetch"}) /\ enabled /\ lastOp'.key # NoKey) =>
             /\ \A i \in 1..Len(store') : store'[i].expiresAt > now
             /\ \A i \in 1..Len(store) :
                   store[i].key = lastOp'.key =>
                      /\ now < store[i].expiresAt =>
                            /\ lastOp'.hit
                            /\ Has(store', lastOp'.key)
                            /\ Get(store', lastOp'.key) = store[i]
                      /\ now > store[i].expiresAt => ~lastOp'.hit]_vars
    /\ [][\A i \in 1..Len(store) :
             (store[i].expiresAt > now /\ store[i] \notin {store'[j] : j \in 1..Len(store')})
                 => (OpStep({"store"}) /\ lastOp'.stored)]_vars

\* A hit in the last instant before the expiry of an entry stored earlier.
C10_Witness ==
    /\ lastOp.op = "lookup"
    /\ lastOp.hit
    /\ \E i \in 1..Len(store) :
          /\ store[i].key = lastOp.key
          /\ lastOp.at = store[i].expiresAt - 1
          /\ lastOp.at > store[i].createdAt

\* A step in which a caller writes to an object it holds.
MutateStep == Len(heap') = Len(heap) /\ heap' # heap

\* C11: a value handed out by a cache read (lookup or fetch) and the response
\* handed to storeResponse share no object with the stored entry: a caller's
\* write to any object it holds leaves every stored entry as it was.
C11_ReadsAreClones == [][MutateStep => store' = store]_vars

\* The defined properties of an object, and the value of one of them.
DefinedKeys(o) == {o.props[i].k : i \in {j \in 1..Len(o.props) : o.props[j].v.t # "undefined"}}
ValueOf(o, k) == o.props[CHOOSE i \in 1..Len(o.props) : o.props[i].k = k].v

\* Structural equality with undefined properties dropped and the order of
\* an object's properties ignored.
RECURSIVE SameValue(_, _)
SameValue(x, y) ==
    /\ x.t = y.t
    /\ x.t = "string" => x.s = y.s
    /\ x.t = "array" =>
            /\ Len(x.items) = Len(y.items)
            /\ \A i \in 1..Len(x.items) : SameValue(x.items[i], y.items[i])
    /\ x.t = "object" =>
            /\ DefinedKeys(x) = DefinedKeys(y)
            /\ \A k \in DefinedKeys(x) : SameValue(ValueOf(x, k), ValueOf(y, k))

SameEightFields(a, b) ==
    \A i \in 1..Len(KeyFields) : SameValue(a[KeyFields[i]], b[KeyFields[i]])

\* C12: two request bodies whose eight key fields are structurally equal,
\* once undefined values are dropped and property order is ignored, get the
\* same key, whatever their property order and their other fields.
C12_KeyCanonical ==
    (keyCall.done /\ SameEightFields(keyCall.a, keyCall.b))
        => keyCall.ka = keyCall.kb

\* Two bodies with the message properties in different orders and different
\* session ids got one key.
C12_Witness ==
    /\ keyCall.done
    /\ SameEightFields(keyCall.a, keyCall.b)
    /\ keyCall.a.messages.t = "array"
    /\ keyCall.a.messages.items[1].props[1].k # keyCall.b.messages.items[1].props[1].k
    /\ keyCall.a.session_id.t # keyCall.b.session_id.t
    /\ keyCall.ka = keyCall.kb
    /\ keyCall.ka # NullKey

\* The requests made on client c, as the history has them.
ReqsOf(rs, c) == SelectSeq(rs, LAMBDA r : r.client = c)

ClientIds == 1..Len(clientObjs)

\* A closed client stays closed, no step settles or adds a request of it,
\* and a request() on it throws.
ClosedStaysClosed ==
    /\ \A c \in ClientIds :
           clientObjs[c].closed =>
               /\ clientObjs'[c].closed
               /\ ReqsOf(reqs', c) = ReqsOf(reqs, c)
    /\ (lastMcp'.op = "request" /\ clientObjs[lastMcp'.client].closed)
           => lastMcp'.threw

\* A closed client has no pending request.
ClosedHasNonePending ==
    \A c \in ClientIds :
        clientObjs[c].closed =>
            /\ clientObjs[c].pending = {}
            /\ \A i \in 1..Len(reqs) :
                   reqs[i].client = c => reqs[i].outcome # "pending"

\* C13: once a client is closed, by close(), child exit or spawn error, its
\* pending map is empty and none of its requests is left pending; from then
\* on the flag stays set, no line and no other step settles or adds a
\* request of it, and request() on it throws.
C13_ClosedIsFinal == []ClosedHasNonePending /\ [][ClosedStaysClosed]_vars

\* A request on a closed client threw, after close rejected a pending call.
C13_Witness ==
    /\ lastMcp.op = "request"
    /\ lastMcp.threw
    /\ clientObjs[lastMcp.client].closed
    /\ \E i \in 1..Len(reqs) :
            /\ reqs[i].client = lastMcp.client
            /\ reqs[i].method = "call"
            /\ reqs[i].outcome = "rejected"

\* C14: at most one child per server id is alive (spawned, not yet exited).
AliveChildren(sid) ==
    {ch \in 1..Len(children) : children[ch].server = sid /\ children[ch].state = "alive"}

C14_OneChildPerServer == \A sid \in ServerIds : Cardinality(AliveChildren(sid)) <= 1

\* C15: no request other than initialize is resolved before the client's
\* initialize request has completed.
C15_InitializeFirst == \A i \in 1..Len(reqs) : ~reqs[i].early

\* The request of client c with id i, in the history rs.
ReqOf(rs, c, i) == rs[CHOOSE k \in 1..Len(rs) : rs[k].client = c /\ rs[k].id = i]

\* Ids are not reused on a client and no request is settled twice.
SettledOnce ==
    /\ \A i, j \in 1..Len(reqs) :
           (reqs[i].client = reqs[j].client /\ reqs[i].id = reqs[j].id) => i = j
    /\ \A i \in 1..Len(reqs) : reqs[i].settles <= 1

\* What a line step does to the requests.
LineSettlesItsRequest ==
    lastMcp'.op = "line" =>
        LET c == lastMcp'.client
            id == lastMcp'.id
        IN IF id \in clientObjs[c].pending
           THEN /\ clientObjs'[c].pending = clientObjs[c].pending \ {id}
                /\ ReqOf(reqs', c, id).outcome =
                       IF lastMcp'.error THEN "rejected" ELSE "resolved"
                /\ \A k \in 1..Len(reqs) :
                       (reqs[k].client # c \/ reqs[k].id # id) => reqs'[k] = reqs[k]
           ELSE reqs' = reqs /\ clientObjs' = clientObjs

\* C16: the requests of a client have distinct ids; a line with id i settles
\* the pending request i of its client, resolved or, with an error, rejected,
\* removes it from pending and touches no other request; a line with an
\* unknown id or none settles nothing; no request is settled twice.
C16_CorrelatedById == []SettledOnce /\ [][LineSettlesItsRequest]_vars

\* With two requests pending on one client, the answer to the second came
\* first and settled the second only.
C16_Witness ==
    /\ lastMcp.op = "line"
    /\ lastMcp.id = 2
    /\ \E i, j \in 1..Len(reqs) :
            /\ reqs[i].client = lastMcp.client /\ reqs[i].id = 1
            /\ reqs[i].outcome = "pending"
            /\ reqs[j].client = lastMcp.client /\ reqs[j].id = 2
            /\ reqs[j].outcome = "resolved" /\ reqs[j].settles = 1

\* C17: loading or refreshing the manifests spawns no child process.
C17_LazySpawn ==
    [][lastMcp'.op = "loadConfiguredServers" => Len(children') = Len(children)]_vars

\* A server's client is live: started and not closed.
Live(sid) ==
    /\ clients[sid] # NoClient
    /\ clientObjs[clients[sid]].started
    /\ ~clientObjs[clients[sid]].closed

\* C18: once registerRemoteTools has run, the tool of every stdio server
\* whose client stays live is eventually registered under mcp_<server>_<tool>.
C18_RemoteToolsRegistered ==
    \A sid \in ServerIds :
        (lastMcp.op = "registerRemoteTools" /\ Live(sid))
            ~> (RemoteToolName(sid) \in remoteTools \/ ~Live(sid))

\* An entry that has both an id and a command.
Complete(entry) == entry.id # Absent /\ entry.command

\* C19: after a load, the servers listed are the ids of the entries that
\* have an id and a command, and no client is made for any other entry.
C19_IncompleteEntriesSkipped ==
    [][lastMcp'.op = "loadConfiguredServers" =>
          LET entries == lastMcp'.entries
          IN /\ listServers(servers') =
                    {entries[i].id : i \in {j \in 1..Len(entries) : Complete(entries[j])}}
             /\ \A c \in (Len(clientObjs) + 1)..Len(clientObjs') :
                    servers'[clientObjs'[c].server].command]_vars

\* C20: executeToolCall never rejects: for every call, one without a name or
\* with an unknown name included, it resolves to a tool result whose content
\* is a string; an unregistered tool gives ok=false and 404, a handler that
\* throws gives ok=false, 500 and tool_execution_failed.
C20_ExecuteNeverRejects ==
    execCall.done =>
        /\ execCall.result.settled = "resolved"
        /\ execCall.result.content = "string"
        /\ (~execCall.call.named \/ DispatchName(execCall.call.name) = "")
              => (~execCall.result.ok /\ execCall.result.status = 404)
        /\ (execCall.result.registered /\ execCall.handler.kind = "throws")
              => /\ ~execCall.result.ok
                 /\ execCall.result.status = 500
                 /\ execCall.result.error = "tool_execution_failed"

\* The call with its arguments written as the JSON text of the same mapping.
AsJsonText(call) == Call(call.name, "json", call.value)

\* C21: a call whose arguments are a structured object is judged by the
\* policy engine and run by its handler exactly as the call carrying the
\* same mapping as a JSON text, and a text that is no JSON yields the empty
\* mapping on both sides.
C21_ObjectAndTextArgumentsAgree ==
    /\ lastCall.form = "object" =>
          /\ policyParseArguments(lastCall) = lastCall.value
          /\ parseArguments(lastCall) = lastCall.value
          /\ decision = evaluateToolCall(AsJsonText(lastCall), toolCallsExecuted)
          /\ execResult # Unsettled =>
                \E exitOk \in BOOLEAN :
                    execResult = executeToolCall(AsJsonText(lastCall), exitOk)
    /\ lastCall.form = "invalid" =>
          /\ policyParseArguments(lastCall) = EmptyArgs
          /\ parseArguments(lastCall) = EmptyArgs

DebugCreatesNoSession ==
    (lastApi'.op \in {"sessionMiddleware", "debugSession"}
        /\ req'.route = "GET /debug/session") => sessions' = sessions

\* The answer /debug/session gives: 400 to a request that names no session,
\* 404 for an id the store does not hold, else the persisted session.
DebugAnswer ==
    (res.sent /\ req.route = "GET /debug/session") =>
        IF req.generatedSessionId
        THEN res.status = 400
        ELSE IF ~sessions[req.sessionId].present
             THEN res.status = 404
             ELSE /\ res.status = 200
                  /\ res.body = getSession(sessions, session_history, req.sessionId)

\* C27: GET /debug/session answers 400 when the request names no session
\* and 404 when the store holds no session of that id; it returns the
\* persisted session only for an id that was already there, and the request
\* creates no session.
C27_DebugSessionReadsOnly ==
    []DebugAnswer /\ [][DebugCreatesNoSession]_vars

\* The places a request can name its session in, in their order.
IdPlaces(r) ==
    <<r.headers["x-session-id"], r.headers["x-claude-session-id"],
      r.headers["x-claude-session"], r.headers["x-claude-conversation-id"],
      r.headers["anthropic-session-id"], r.body["session_id"],
      r.body["sessionId"], r.body["conversation_id"]>>

NonBlank(v) == v.t = "string" /\ \E i \in 1..Len(v.s) : v.s[i] # " "

WithoutBlanks(s) == SelectSeq(s, LAMBDA c : c # " ")

\* C28: the session id of a request is the first value, in the order
\* x-session-id, x-claude-session-id, x-claude-session,
\* x-claude-conversation-id, anthropic-session-id, body session_id,
\* sessionId, conversation_id, that is not blank, with the blanks around it
\* removed; only when all are absent or blank is an id generated and the
\* request marked generated.
C28_FirstNonBlankWins ==
    req.route # "none" =>
        LET places == IdPlaces(req)
            named == {i \in 1..Len(places) : NonBlank(places[i])}
        IN IF named = {}
           THEN req.generatedSessionId /\ req.sessionId = GeneratedId
           ELSE LET first == CHOOSE i \in named : \A j \in named : i <= j
                IN /\ ~req.generatedSessionId
                   /\ req.sessionId = WithoutBlanks(places[first].s)

C28_Witness ==
    /\ req.route # "none"
    /\ req.headers["x-session-id"] = JStr(<<" ">>)
    /\ req.headers["x-claude-session-id"] = JUndefined
    /\ req.headers["anthropic-session-id"] = JStr(<<" ", "s1">>)
    /\ req.body["session_id"] = JStr(<<" ">>)
    /\ req.body["sessionId"] = JStr(<<"s2", " ">>)
    /\ req.sessionId = <<"s1">>

\* The history getSession returns for a session that has a row.
HistoryOf(table, rows, id) == getSession(table, rows, id).history

\* An appendSessionTurn that returned is followed by a history holding the
\* turn as it was passed, stamped no earlier than the clock read at the call.
AppendedTurnIsRead ==
    (lastApi'.op = "appendSessionTurn" /\ ~lastApi'.threw) =>
        \E i \in 1..Len(HistoryOf(sessions', session_history', lastApi'.id)) :
            LET read == HistoryOf(sessions', session_history', lastApi'.id)[i]
            IN /\ read.role = lastApi'.turn.role
               /\ read.type = lastApi'.turn.type
               /\ read.content = lastApi'.turn.content
               /\ read.metadata = lastApi'.turn.metadata
               /\ read.timestamp.n >= lastApi'.at

\* C29: after appendSessionTurn(id, turn) on an existing session,
\* getSession(id) returns a history that contains the turn with the same
\* role, type, content and metadata and a timestamp not before the clock
\* reading at the call.
C29_AppendThenGet == [][AppendedTurnIsRead]_vars

\* An append leaves the turns read before it where they were and adds its
\* turn after them.
AppendKeepsOrder ==
    (lastApi'.op = "appendSessionTurn" /\ ~lastApi'.threw) =>
        LET before == HistoryOf(sessions, session_history, lastApi'.id)
            after == HistoryOf(sessions', session_history', lastApi'.id)
        IN /\ Len(after) = Len(before) + 1
           /\ SubSeq(after, 1, Len(before)) = before
           /\ after[Len(after)].content = lastApi'.turn.content
           /\ after[Len(after)].role = lastApi'.turn.role

\* C30: the turns of a session are append-only and read in insertion order,
\* turns that carry their own timestamp included: a later append never
\* changes or reorders the turns before it.
C30_InsertionOrder == [][AppendKeepsOrder]_vars

\* processMessage has returned.
HasReturned == loop.pc = "returned"

\* The upstream is never called more often than maxStepsPerTurn allows.
UpstreamBounded == loop.pc # "idle" => loop.steps <= loop.maxSteps

\* Every reply carried one tool call, and the turn ended with step_limit
\* after maxStepsPerTurn upstream calls, in a synthesized assistant message.
EndsAtStepLimit ==
    /\ loop.reason = JStr("step_limit")
    /\ loop.steps = loop.maxSteps
    /\ loop.status = 200
    /\ loop.body = AssistantMessage("step_limit")

StepLimitUnlessCutShort ==
    /\ UpstreamBounded
    /\ (HasReturned /\ loop.oneCallEach
            /\ loop.reason \notin {JStr("cache_hit"), JStr("tool_limit_reached")})
          => EndsAtStepLimit

ExpectedRole(e) ==
    IF e = "user" THEN JStr("user")
    ELSE IF e = "call" THEN JStr("tool") ELSE JStr("assistant")

\* The replies the upstream gave in the turn.
Replies == SelectSeq(loop.log, LAMBDA e : e = "reply")

\* After a 200 the session's history, in memory and as persisted, is what
\* it was before the request followed by one turn per step of the loop, in
\* the order of the steps, and it ends with an assistant turn.
HistoryTotal ==
    (HasReturned /\ loop.status = 200) =>
        LET mem == req.session.history
            stored == HistoryOf(sessions, session_history, req.sessionId)
            n == Len(loop.log)
        IN /\ Len(mem) = loop.base + n
           /\ \A i \in 1..n : mem[loop.base + i].role = ExpectedRole(loop.log[i])
           /\ \A i \in 1..req.messages : loop.log[i] = "user"
           /\ Len(Replies) = loop.steps
           /\ mem[Len(mem)].role = JStr("assistant")
           /\ Len(stored) = Len(mem)
           /\ \A i \in 1..Len(mem) :
                 /\ stored[i].role = mem[i].role
                 /\ stored[i].type = mem[i].type
                 /\ stored[i].status = mem[i].status
                 /\ stored[i].content = mem[i].content
                 /\ stored[i].timestamp = mem[i].timestamp

C25_StatusPassedOn ==
    /\ (loop.pc # "idle" /\ loop.reason = JStr("provider_error")) => HasReturned
    /\ res.sent =>
          /\ res.status = loop.status
          /\ (loop.reason = JStr("provider_error") /\ ~req.stream) => res.body = loop.body

\* The reason the end event names.
ReasonSent == IF loop.reason = JUndefined THEN JStr("completion") ELSE loop.reason

\* C26: with stream:true the answer is exactly one message event carrying
\* the final body, followed by exactly one end event carrying the
\* termination reason ("completion" when none was reported), and nothing
\* after it.
C26_OneMessageThenEnd ==
    (res.sent /\ req.stream) =>
        /\ Len(res.events) = 2
        /\ res.events[1].event = "message"
        /\ res.events[1].data =
               JsonStringify(JObj(<<Prop("type", JStr("message")),
                                    Prop("message", loop.body)>>))
        /\ res.events[2].event = "end"
        /\ res.events[2].data = JsonStringify(JObj(<<Prop("termination", ReasonSent)>>))
        /\ res.ended
        /\ res.body = JUndefined

C26_Witness ==
    /\ res.sent
    /\ req.stream
    /\ loop.reason = JUndefined
    /\ Len(res.events) = 2
    /\ res.events[2].data =
           JsonStringify(JObj(<<Prop("termination", JStr("completion"))>>))

\* The session_history rows of one session, in table order.
RowsOf(history, sessionId) ==
    SelectSeq(history, LAMBDA row : row.session_id = sessionId)

EveryTurnHasItsSession ==
    \A i \in 1..Len(session_history) :
        /\ session_history[i].session_id \in SessionIds
        /\ sessions[session_history[i].session_id].present
        /\ \A j \in 1..Len(session_history) :
               session_history[i].id = session_history[j].id => i = j

AppendToMissingSessionFails ==
    \A id \in SessionIds :
        (/\ ~sessions[id].present
         /\ lastApi'.op = "appendSessionTurn"
         /\ lastApi'.id = id
         /\ lastApi' # lastApi)
        => /\ lastApi'.threw
           /\ session_history' = session_history
           /\ sessions' = sessions

DeleteRemovesOnlyItsOwn ==
    \A id \in SessionIds :
        (lastApi'.op = "deleteSession" /\ lastApi'.id = id /\ lastApi' # lastApi)
        => /\ ~sessions'[id].present
           /\ RowsOf(session_history', id) = <<>>
           /\ \A other \in SessionIds \ {id} :
                  /\ sessions'[other] = sessions[other]
                  /\ RowsOf(session_history', other) = RowsOf(session_history, other)

TurnsBelongStep ==
    /\ EveryTurnHasItsSession'
    /\ AppendToMissingSessionFails
    /\ DeleteRemovesOnlyItsOwn

\* C31: after any sequence of getOrCreateSession, upsertSession,
\* appendSessionTurn and deleteSession every persisted turn belongs to exactly
\* one existing session; an append to a missing session id fails and inserts
\* nothing; deleteSession(id) removes the session with all of its turns and
\* nothing of any other session.
C31_TurnsBelongToSessions == [][TurnsBelongStep]_vars

\* A session with a turn was deleted while another session kept its turn.
C31_Witness ==
    /\ lastApi.op = "deleteSession"
    /\ historySeq = 2
    /\ Len(session_history) = 1
    /\ sessions[session_history[1].session_id].present

\* A pattern matches a command by equality or, when it ends in one "*" only,
\* by the prefix before that "*".
MatchesAsStated(pattern, command) ==
    \/ pattern = command
    \/ /\ pattern # <<>>
       /\ pattern[Len(pattern)] = "*"
       /\ Len(pattern) > 1 => pattern[Len(pattern) - 1] # "*"
       /\ startsWith(command, SubSeq(pattern, 1, Len(pattern) - 1))

\* The same on the trimmed, lower-cased texts, the prefix being all that
\* precedes the final "*".
MatchesNormalised(pattern, command) ==
    LET p == normaliseValue(pattern)
        c == normaliseValue(command)
    IN /\ p # <<>>
       /\ \/ p = c
          \/ /\ p[Len(p)] = "*"
             /\ startsWith(c, SubSeq(p, 1, Len(p) - 1))

AllowedIff(Matches(_, _)) ==
    sbxCall.pc = "decided" =>
        LET permissions == sbxCall.permissions
            denied == \E i \in 1..Len(permissions.deny) :
                          Matches(permissions.deny[i], sbxCall.command)
            admitted == \E i \in 1..Len(permissions.allow) :
                            Matches(permissions.allow[i], sbxCall.command)
        IN sbxCall.permission.allowed <=>
               /\ ~denied
               /\ \/ permissions.mode = "auto"
                  \/ permissions.mode = "require" /\ admitted

\* C34 as stated: evaluateSandboxRequest allows a command iff it matches no
\* deny pattern and the mode is auto, or require with an allow pattern
\* matched; a pattern matches by equality or, with a single trailing *, by
\* prefix.
C34_AllowedAsStated == AllowedIff(MatchesAsStated)

\* C34 amended: the same equivalence, where patterns and command are compared
\* after trimming and lower-casing and a pattern ending in * matches every
\* command that starts with the text before that final *; mode deny allows
\* nothing and a command matching both lists is denied.
C34_AllowedAmended ==
    /\ AllowedIff(MatchesNormalised)
    /\ (sbxCall.pc = "decided" /\ sbxCall.permissions.mode = "deny")
           => ~sbxCall.permission.allowed

\* A command that matches a pattern of each list was denied under require.
C34_Witness ==
    /\ sbxCall.pc = "decided"
    /\ sbxCall.permissions.mode = "require"
    /\ \E i \in 1..Len(sbxCall.permissions.allow) :
           MatchesNormalised(sbxCall.permissions.allow[i], sbxCall.command)
    /\ \E i \in 1..Len(sbxCall.permissions.deny) :
           sbxCall.permissions.deny[i] = <<"l", "*">>
    /\ sbxCall.command = <<"l", "s">>
    /\ ~sbxCall.permission.allowed

\* One stream's capture: bounded, and flagged exactly when output was lost.
StreamBounded(text, overflow, written) ==
    /\ Len(text) <= MaxBuffer
    /\ overflow <=> written > Len(text)

CaptureBounded ==
    proc.pc = "running" =>
        /\ StreamBounded(proc.stdout, proc.stdoutOverflow, proc.emitted.stdout)
        /\ StreamBounded(proc.stderr, proc.stderrOverflow, proc.emitted.stderr)
        /\ proc.result # Unsettled =>
               /\ StreamBounded(proc.result.stdout, proc.result.stdoutOverflow,
                                proc.emitted.stdout)
               /\ StreamBounded(proc.result.stderr, proc.result.stderrOverflow,
                                proc.emitted.stderr)

StreamsIndependent ==
    (proc.pc = "running" /\ proc'.pc = "running") =>
        /\ proc.stdoutOverflow => proc'.stdoutOverflow
        /\ proc.stderrOverflow => proc'.stderrOverflow
        /\ proc'.emitted.stdout # proc.emitted.stdout =>
               /\ proc'.stderr = proc.stderr
               /\ proc'.stderrOverflow = proc.stderrOverflow
        /\ proc'.emitted.stderr # proc.emitted.stderr =>
               /\ proc'.stdout = proc.stdout
               /\ proc'.stdoutOverflow = proc.stdoutOverflow

CaptureStep == CaptureBounded' /\ StreamsIndependent

\* C32: for each stream of a run, on the host or sandboxed, the captured text
\* is never longer than maxBuffer, at every point and in the result; the
\* stream's overflow flag is true exactly when some of its output was
\* discarded and never returns to false; truncating one stream changes
\* neither the other stream's text nor its flag.
C32_BoundedCapture == [][CaptureStep]_vars

\* A sandboxed run resolved with stdout truncated and stderr whole.
C32_Witness ==
    /\ proc.pc = "running"
    /\ proc.sandboxed
    /\ proc.result # Unsettled
    /\ proc.result.stdoutOverflow
    /\ ~proc.result.stderrOverflow
    /\ proc.result.stderr = <<"a", "b">>

TimerAndCloseAgree ==
    proc.pc = "running" =>
        /\ proc.timer = "fired" => proc.timedOut /\ proc.kills = 1
        /\ proc.timer # "fired" => ~proc.timedOut /\ proc.kills = 0
        /\ proc.child = "closed" => proc.timer # "armed"
        /\ proc.promise = "resolved" =>
               /\ proc.child = "closed"
               /\ proc.result.timedOut <=> proc.timer = "fired"
        /\ proc.promise # "resolved" => proc.result = Unsettled

TimerActsOnce ==
    proc.pc = "running" =>
        /\ (proc.timer = "armed" /\ proc'.timer = "fired") =>
               /\ proc.child # "closed"
               /\ proc'.kills = proc.kills + 1
               /\ proc'.timedOut
        /\ proc.timer # "armed" => proc'.timer = proc.timer /\ proc'.kills = proc.kills
        /\ proc.promise # "pending" =>
               proc'.promise = proc.promise /\ proc'.result = proc.result

RunSettles == (proc.pc = "running") ~> (proc.pc = "running" /\ proc.promise # "pending")

\* C33: for every run, a child that has not closed when the timeout elapses
\* is sent SIGKILL and the result has timedOut = true; when the child closes
\* first the timer is cancelled, no kill is sent and timedOut = false; either
\* way the result promise settles exactly once.
C33_TimeoutOrClose ==
    /\ [][TimerAndCloseAgree' /\ TimerActsOnce]_vars
    /\ RunSettles

\* The timer ran out, the child was killed and the run resolved as timed out.
C33_Witness ==
    /\ proc.pc = "running"
    /\ proc.timer = "fired"
    /\ proc.kills = 1
    /\ proc.promise = "resolved"
    /\ proc.result.timedOut

\* C35: in every sandboxed run each environment variable handed to the
\* container is MCP_SANDBOX_SESSION set to the session id or a variable
\* whose name is in the configured passthrough whitelist, for every
\* whitelist, the empty one included.
C35_OnlyWhitelistedEnv ==
    (proc.pc = "running" /\ proc.sandboxed) =>
        \A e \in proc.envArgs :
            \/ e = EnvVar("MCP_SANDBOX_SESSION", proc.session)
            \/ e.name \in proc.passthroughEnv

\* C36: when POLICY_GIT_REQUIRE_TESTS is true, git commit is run only after
\* the pre-commit test command has been run and has exited zero; skip_tests
\* cannot bypass the test run, and a failing or missing test run means no
\* commit is made.
C36_CommitOnlyAfterTests ==
    (gitCall.pc # "off" /\ gitCall.policy.requireTests) =>
        \A i \in 1..Len(gitCall.ran) :
            gitCall.ran[i] = "commit" =>
                /\ \E j \in 1..(i - 1) : gitCall.ran[j] = "test"
                /\ gitCall.testExit = 0

\* The servers whose client in the registry is closed.
ClosedClientOf(sid) ==
    /\ clients[sid] # NoClient
    /\ clientObjs[clients[sid]].closed

ClosedClientStays ==
    \A sid \in ServerIds :
        ClosedClientOf(sid) =>
            /\ lastMcp'.op = "ensureClient" =>
                   /\ clients'[sid] = clients[sid]
                   /\ clientObjs'[clients[sid]].closed
                   /\ \A ch \in 1..Len(children') :
                          children'[ch].server = sid => ch \in 1..Len(children)
            /\ (lastMcp'.op = "request" /\ lastMcp'.client = clients[sid]) =>
                   /\ lastMcp'.threw
                   /\ reqs' = reqs
            /\ clients'[sid] # clients[sid] =>
                   lastMcp'.op \in {"clearServers", "loadConfiguredServers"}
            /\ clients'[sid] = clients[sid] => clientObjs'[clients[sid]].closed

\* C37: once the client of a server has been closed by child exit,
\* ensureClient for that server keeps returning that closed client and
\* spawns no replacement child, so every later request to the server fails;
\* only a manifest reload (clearServers, loadConfiguredServers) makes the
\* server reachable again.
C37_ClosedClientStays == [][ClosedClientStays]_vars

\* The child of server a exited, ensureClient gave its closed client again
\* and a request on it threw.
C37_Witness ==
    /\ ClosedClientOf("a")
    /\ children # <<>>
    /\ children[1].state = "gone"
    /\ clients["a"] = 1
    /\ lastMcp.op = "request"
    /\ lastMcp.client = 1
    /\ lastMcp.threw

\* The persisted turns of request r, as getSession reads them: the turns of
\* its session that carry r's text.
PersistedOf(r) ==
    SelectSeq(HistoryOf(sessions, session_history, inflight[r].id),
              LAMBDA turn : turn.content = FlightEntry(r, 1).content)

\* C38: when two requests in flight interleave appendTurnToSession on one
\* session id, the persisted history holds every appended turn of both
\* exactly once, the turns of each request in that request's own order.
C38_InterleavedAppendsKept ==
    \A r \in Flights :
        inflight[r].pc = "has" =>
            LET persisted == PersistedOf(r)
            IN /\ Len(persisted) = inflight[r].appended
               /\ \A n \in 1..Len(persisted) :
                      /\ persisted[n].role = FlightEntry(r, n).role
                      /\ persisted[n].type = FlightEntry(r, n).type

\* Both requests appended twice to session s1, turn about.
C38_Witness ==
    /\ \A r \in Flights :
           /\ inflight[r].pc = "has"
           /\ inflight[r].id = <<"s1">>
           /\ inflight[r].appended = 2
    /\ LET history == HistoryOf(sessions, session_history, <<"s1">>)
       IN /\ Len(history) = 4
          /\ history[1].content = JStr("hi")
          /\ history[2].content = JStr("x")
          /\ history[3].content = JStr("hi")
          /\ history[4].content = JStr("x")

AppendLeavesMetadata ==
    (lastApi'.op = "appendTurnToSession" /\ ~lastApi'.threw) =>
        /\ sessions'[lastApi'.id].metadata = sessions[lastApi'.id].metadata
        /\ sessions'[lastApi'.id].created_at = sessions[lastApi'.id].created_at
        /\ \A id \in SessionIds \ {lastApi'.id} : sessions'[id] = sessions[id]

\* C39: appendTurnToSession changes only the session's history and its
\* updated-at time: metadata persisted by another writer (upsertSession, or
\* another request with its own copy of the session) is still in the store
\* afterwards, not overwritten by the appender's in-memory copy.
C39_AppendLeavesMetadata == [][AppendLeavesMetadata]_vars

GetOrCreateReadsOnly ==
    (lastApi'.op = "getOrCreateSession" /\ sessions[lastApi'.id].present) =>
        /\ sessions' = sessions
        /\ session_history' = session_history
        /\ lastApi'.result = getSession(sessions, session_history, lastApi'.id)
        /\ lastApi'.result.createdAt = sessions[lastApi'.id].created_at
        /\ lastApi'.result.metadata =
               parseJSON(sessions[lastApi'.id].metadata, JObj(<<>>))
        /\ Len(lastApi'.result.history) =
               Len(RowsOf(session_history, lastApi'.id))

OneRowPerId == \A id \in SessionIds : sessions[id].copies <= 1

\* C40: getOrCreateSession is idempotent: for an id that exists already, one
\* made by a competing insert between its read and its insert included, it
\* returns the persisted session with its creation time, metadata and full
\* history and modifies no row; two session rows with one id never exist.
C40_GetOrCreateIdempotent == [][GetOrCreateReadsOnly /\ OneRowPerId']_vars

\* Request B read no session s1, upsertSession then made it with a name,
\* and B's insert failed: B has the session upsertSession made.
C40_Witness ==
    /\ lastApi.op = "getOrCreateSession"
    /\ inflight["B"].pc = "has"
    /\ inflight["B"].id = <<"s1">>
    /\ inflight["A"].pc = "idle"
    /\ lastApi.result = inflight["B"].session
    /\ lastApi.result.metadata = JObj(<<Prop("name", JStr("hi"))>>)
    /\ lastApi.result.createdAt < clock

====
